---- MODULE Spec2Model ----
(***************************************************************************)
(* Lint-level resolution and lint-table validation of cargo.               *)
(*                                                                         *)
(* Two generations of the subsystem are modelled side by side:             *)
(*   src/cargo/lints/mod.rs   (Gated::{Cli,Feature}, ManifestFor) and      *)
(*   src/cargo/util/lints.rs  (Option<&Feature> gates); its definitions    *)
(*   carry the prefix util_ where the two files use the same name.         *)
(*                                                                         *)
(* Conventions:  Option<T> is a sequence of length <= 1 (<<>> is None,     *)
(* <<x>> is Some(x)); enum values are strings named as in the source;      *)
(* a TomlToolLints table is a function from declared names to              *)
(* [level, priority] records, iterated in the order of its keys.           *)
(***************************************************************************)
EXTENDS Integers, Sequences, FiniteSets, TLC

\* ------------------------------------------------------------------ bounds

\* Declared priorities range over 0 .. MaxPriority.
MaxPriority == 1
\* Editions are positions in the Edition enum's order, 0 .. MaxEdition.
MaxEdition == 1
\* A validation pass is given a table of at most MaxDeclared names.
MaxDeclared == 3
\* Nesting depth of the tables below the root table of a looked-up document.
MaxDepth == 1
\* Largest number of elements of an array of a looked-up document.
MaxLen == 2
\* Largest number of segments of a looked-up path.
MaxPath == 3

\* --------------------------------------------------------------- Option<T>

None == << >>
Some(x) == << x >>
is_some(o) == Len(o) = 1
is_none(o) == Len(o) = 0
unwrap(o) == o[1]
Option(S) == {None} \cup {Some(x) : x \in S}

\* ------------------------------------------------------------ severity model

LintLevel == {"Allow", "Warn", "Deny", "Forbid"}
TomlLintLevel == {"forbid", "deny", "warn", "allow"}

\* Mutant of into: a declared forbid is taken for deny.
into_downgrade(toml_lint_level) ==
    CASE toml_lint_level = "allow"  -> "Allow"
      [] toml_lint_level = "warn"   -> "Warn"
      [] toml_lint_level = "deny"   -> "Deny"
      [] toml_lint_level = "forbid" -> "Deny"

\* impl From<TomlLintLevel> for LintLevel
into(toml_lint_level) ==
    CASE toml_lint_level = "allow"  -> "Allow"
      [] toml_lint_level = "warn"   -> "Warn"
      [] toml_lint_level = "deny"   -> "Deny"
      [] toml_lint_level = "forbid" -> "Forbid"

\* enum LintLevelReason { Default, Edition(Edition), Package }
Default == << "Default" >>
Edition(e) == << "Edition", e >>
Package == << "Package" >>

\* enum Gated { Cli(CliUnstableFlag), Feature(&'static Feature) }
Cli(flag) == << "Cli", flag >>
Feature(f) == << "Feature", f >>

Editions == 0 .. MaxEdition
Priorities == 0 .. MaxPriority
FeatureNames == {"test_dummy_unstable"}
CliFlagNames == {"cargo_lints"}

\* Features::is_enabled / CliUnstable::is_enabled: membership in the enabled set
is_enabled(enabled, f) == f \in enabled

\* TomlToolLints::get
get(pkg_lints_, name) ==
    IF name \in DOMAIN pkg_lints_ THEN Some(pkg_lints_[name]) ELSE None

TomlLint == [level : TomlLintLevel, priority : Priorities]

\* ------------------------------------------------------------ Lint::level

\* Mutant of gate_inactive: the CLI gate gets the polarity of the feature gate.
gate_inactive_same_polarity(feature_gate, unstable_features_, cli_unstable_) ==
    /\ is_some(feature_gate)
    /\ LET f == unwrap(feature_gate) IN
         CASE f[1] = "Cli"     -> ~is_enabled(cli_unstable_, f[2])
           [] f[1] = "Feature" -> ~is_enabled(unstable_features_, f[2])

\* lints/mod.rs: the gate closure of Lint::level
gate_inactive(feature_gate, unstable_features_, cli_unstable_) ==
    /\ is_some(feature_gate)
    /\ LET f == unwrap(feature_gate) IN
         CASE f[1] = "Cli"     -> is_enabled(cli_unstable_, f[2])
           [] f[1] = "Feature" -> ~is_enabled(unstable_features_, f[2])

\* Mutant of util_gate_inactive: the negation is dropped.
util_gate_inactive_flipped(feature_gate, unstable_features_) ==
    /\ is_some(feature_gate)
    /\ is_enabled(unstable_features_, unwrap(feature_gate))

\* util/lints.rs: feature_gate.is_some_and(|f| !unstable_features.is_enabled(f))
util_gate_inactive(feature_gate, unstable_features_) ==
    /\ is_some(feature_gate)
    /\ ~is_enabled(unstable_features_, unwrap(feature_gate))

\* Mutant of edition_level_of: the threshold edition itself is excluded.
edition_level_of_strict(edition_lint_opts, edition_) ==
    IF is_some(edition_lint_opts) /\ edition_ > unwrap(edition_lint_opts)[1]
    THEN Some(unwrap(edition_lint_opts)[2])
    ELSE None

\* edition_lint_opts.and_then(|(e, l)| if edition >= *e { Some(l) } else { None })
edition_level_of(edition_lint_opts, edition_) ==
    IF is_some(edition_lint_opts) /\ edition_ >= unwrap(edition_lint_opts)[1]
    THEN Some(unwrap(edition_lint_opts)[2])
    ELSE None

\* Mutant of cmp: equal priorities compare as Less, so a tie goes to the group.
cmp_tie_to_group(a, b) == IF a > b THEN "Greater" ELSE "Less"

\* lint.priority().cmp(&group.priority())
cmp(a, b) == IF a > b THEN "Greater" ELSE IF a = b THEN "Equal" ELSE "Less"

\* lints/mod.rs: the match (lint, group, edition_level) of Lint::level, arm by arm
level_match(lint_, group_, edition_level, default_level, edition_) ==
    \* We first need to check for any `Forbid`
    IF is_some(lint_) /\ unwrap(lint_).level = "forbid"
    THEN << into(unwrap(lint_).level), Package >>
    ELSE IF is_some(group_) /\ unwrap(group_).level = "forbid"
    THEN << into(unwrap(group_).level), Package >>
    ELSE IF is_some(edition_level) /\ unwrap(edition_level) = "Forbid"
    THEN << unwrap(edition_level), Edition(edition_) >>
    ELSE IF default_level = "Forbid"
    THEN << default_level, Default >>
    \* There were no `Forbid`, so we look for defined levels
    ELSE IF is_some(lint_) /\ is_some(group_)
    THEN LET ord == cmp(unwrap(lint_).priority, unwrap(group_).priority)
             lvl == CASE ord = "Greater" -> unwrap(lint_).level
                      [] ord = "Equal"   -> unwrap(lint_).level
                      [] ord = "Less"    -> unwrap(group_).level
         IN  << into(lvl), Package >>
    ELSE IF is_some(lint_) /\ is_none(group_)
    THEN << into(unwrap(lint_).level), Package >>
    ELSE IF is_none(lint_) /\ is_some(group_)
    THEN << into(unwrap(group_).level), Package >>
    \* Nothing was defined, check for an edition specific level
    ELSE IF is_some(edition_level)
    THEN << unwrap(edition_level), Edition(edition_) >>
    \* Fallback to default
    ELSE << default_level, Default >>

\* Mutant of level: the edition override of the lint is not looked at.
level_edition_blind(self, pkg_lints_, edition_, unstable_features_, cli_unstable_) ==
    IF gate_inactive(self.feature_gate, unstable_features_, cli_unstable_)
    THEN << "Allow", Default >>
    ELSE level_match(get(pkg_lints_, self.name),
                     get(pkg_lints_, self.primary_group.name),
                     None,
                     self.primary_group.default_level,
                     edition_)

\* lints/mod.rs Lint::level
level(self, pkg_lints_, edition_, unstable_features_, cli_unstable_) ==
    IF gate_inactive(self.feature_gate, unstable_features_, cli_unstable_)
    THEN << "Allow", Default >>
    ELSE level_match(get(pkg_lints_, self.name),
                     get(pkg_lints_, self.primary_group.name),
                     edition_level_of(self.edition_lint_opts, edition_),
                     self.primary_group.default_level,
                     edition_)

\* Mutant of util_level_match: a lint declared with a higher priority than its
\* group is taken before the Forbid arms are tried.
util_level_match_priority_first(lint_, group_, edition_level, default_level, edition_) ==
    IF /\ is_some(lint_)
       /\ is_some(group_)
       /\ cmp(unwrap(lint_).priority, unwrap(group_).priority) = "Greater"
    THEN << into(unwrap(lint_).level), Package >>
    ELSE level_match(lint_, group_, edition_level, default_level, edition_)

\* util/lints.rs: the match (lint, group, edition_level) of Lint::level
util_level_match(lint_, group_, edition_level, default_level, edition_) ==
    IF is_some(lint_) /\ unwrap(lint_).level = "forbid"
    THEN << into(unwrap(lint_).level), Package >>
    ELSE IF is_some(group_) /\ unwrap(group_).level = "forbid"
    THEN << into(unwrap(group_).level), Package >>
    ELSE IF is_some(edition_level) /\ unwrap(edition_level) = "Forbid"
    THEN << unwrap(edition_level), Edition(edition_) >>
    ELSE IF default_level = "Forbid"
    THEN << default_level, Default >>
    ELSE IF is_some(lint_) /\ is_some(group_)
    THEN LET ord == cmp(unwrap(lint_).priority, unwrap(group_).priority)
             lvl == CASE ord = "Greater" -> unwrap(lint_).level
                      [] ord = "Equal"   -> unwrap(lint_).level
                      [] ord = "Less"    -> unwrap(group_).level
         IN  << into(lvl), Package >>
    ELSE IF is_some(lint_) /\ is_none(group_)
    THEN << into(unwrap(lint_).level), Package >>
    ELSE IF is_none(lint_) /\ is_some(group_)
    THEN << into(unwrap(group_).level), Package >>
    ELSE IF is_some(edition_level)
    THEN << unwrap(edition_level), Edition(edition_) >>
    ELSE << default_level, Default >>

\* Mutant of util_level: the feature gate is not looked at.
util_level_ungated(self, pkg_lints_, edition_, unstable_features_) ==
    util_level_match(get(pkg_lints_, self.name),
                     get(pkg_lints_, self.primary_group.name),
                     edition_level_of(self.edition_lint_opts, edition_),
                     self.primary_group.default_level,
                     edition_)

\* util/lints.rs Lint::level
util_level(self, pkg_lints_, edition_, unstable_features_) ==
    IF util_gate_inactive(self.feature_gate, unstable_features_)
    THEN << "Allow", Default >>
    ELSE util_level_match(get(pkg_lints_, self.name),
                          get(pkg_lints_, self.primary_group.name),
                          edition_level_of(self.edition_lint_opts, edition_),
                          self.primary_group.default_level,
                          edition_)

\* Mutant of is_error: Deny is not counted as an error.
is_error_forbid_only(self) == self = "Forbid"

\* impl LintLevel
is_error(self) == self = "Forbid" \/ self = "Deny"

\* Mutant of to_diagnostic_level: Deny is shown as a warning.
to_diagnostic_level_deny_warns(self) ==
    CASE self = "Allow"  -> "unreachable"
      [] self = "Warn"   -> "WARNING"
      [] self = "Deny"   -> "WARNING"
      [] self = "Forbid" -> "ERROR"

\* LintLevel::to_diagnostic_level; the Allow arm is unreachable!()
to_diagnostic_level(self) ==
    CASE self = "Allow"  -> "unreachable"
      [] self = "Warn"   -> "WARNING"
      [] self = "Deny"   -> "ERROR"
      [] self = "Forbid" -> "ERROR"

force(self) ==
    CASE self = "Allow"  -> FALSE
      [] self = "Warn"   -> TRUE
      [] self = "Deny"   -> TRUE
      [] self = "Forbid" -> TRUE

\* ------------------------------------------------- names and their text

\* The text of every name the model uses, character by character, in the
\* byte order of the names (the order of a BTreeMap<String, _>).
NameText == <<
      << "Warnings", << "W", "a", "r", "n", "i", "n", "g", "s" >> >>,
      << "complexity", << "c", "o", "m", "p", "l", "e", "x", "i", "t", "y" >> >>,
      << "correctness", << "c", "o", "r", "r", "e", "c", "t", "n", "e", "s", "s" >> >>,
      << "im_a_teapot", << "i", "m", "_", "a", "_", "t", "e", "a", "p", "o", "t" >> >>,
      << "nursery", << "n", "u", "r", "s", "e", "r", "y" >> >>,
      << "pedantic", << "p", "e", "d", "a", "n", "t", "i", "c" >> >>,
      << "perf", << "p", "e", "r", "f" >> >>,
      << "restriction", << "r", "e", "s", "t", "r", "i", "c", "t", "i", "o", "n" >> >>,
      << "style", << "s", "t", "y", "l", "e" >> >>,
      << "suspicious", << "s", "u", "s", "p", "i", "c", "i", "o", "u", "s" >> >>,
      << "test-dummy-unstable", << "t", "e", "s", "t", "-", "d", "u", "m", "m", "y", "-", "u", "n", "s", "t", "a", "b", "l", "e" >> >>,
      << "test_dummy_unstable", << "t", "e", "s", "t", "_", "d", "u", "m", "m", "y", "_", "u", "n", "s", "t", "a", "b", "l", "e" >> >>,
      << "this-lint-does-not-exist", << "t", "h", "i", "s", "-", "l", "i", "n", "t", "-", "d", "o", "e", "s", "-", "n", "o", "t", "-", "e", "x", "i", "s", "t" >> >>,
      << "unknown-lints", << "u", "n", "k", "n", "o", "w", "n", "-", "l", "i", "n", "t", "s" >> >>,
      << "unknown_lints", << "u", "n", "k", "n", "o", "w", "n", "_", "l", "i", "n", "t", "s" >> >>,
      << "unknwon_lints", << "u", "n", "k", "n", "w", "o", "n", "_", "l", "i", "n", "t", "s" >> >>,
      << "warnings", << "w", "a", "r", "n", "i", "n", "g", "s" >> >>
    >>

NameOrder == [i \in 1 .. Len(NameText) |-> NameText[i][1]]
Names == {NameOrder[i] : i \in 1 .. Len(NameOrder)}
OrderOf(name) == CHOOSE i \in 1 .. Len(NameOrder) : NameOrder[i] = name
Chars(name) == NameText[OrderOf(name)][2]

\* Mutant of replace_hyphens: only the first hyphen is replaced.
replace_hyphens_first(cs) ==
    LET hyphens == {i \in 1 .. Len(cs) : cs[i] = "-"}
    IN  [i \in 1 .. Len(cs) |->
            IF i \in hyphens /\ (\A j \in hyphens : i <= j) THEN "_" ELSE cs[i]]

\* str::replace("-", "_"), on the text of a name
replace_hyphens(cs) == [i \in 1 .. Len(cs) |-> IF cs[i] = "-" THEN "_" ELSE cs[i]]

\* TomlToolLints::keys: the declared names in the order of the map
keys(pkg_lints_) == SelectSeq(NameOrder, LAMBDA n : n \in DOMAIN pkg_lints_)

\* --------------------------------------------- catalog of util/lints.rs

util_CORRECTNESS ==
    [name |-> "correctness", default_level |-> "Deny", feature_gate |-> None]
util_NURSERY ==
    [name |-> "nursery", default_level |-> "Allow", feature_gate |-> None]
util_PEDANTIC ==
    [name |-> "pedantic", default_level |-> "Allow", feature_gate |-> None]
util_RESTRICTION ==
    [name |-> "restriction", default_level |-> "Allow", feature_gate |-> None]
util_STYLE ==
    [name |-> "style", default_level |-> "Warn", feature_gate |-> None]
util_SUSPICIOUS ==
    [name |-> "suspicious", default_level |-> "Warn", feature_gate |-> None]
\* Mutant of util_TEST_DUMMY_UNSTABLE: the group defaults to Forbid.
util_TEST_DUMMY_UNSTABLE_forbid ==
    [name |-> "test_dummy_unstable", default_level |-> "Forbid",
     feature_gate |-> Some("test_dummy_unstable")]

util_TEST_DUMMY_UNSTABLE ==
    [name |-> "test_dummy_unstable", default_level |-> "Allow",
     feature_gate |-> Some("test_dummy_unstable")]

util_LINT_GROUPS == << util_CORRECTNESS, util_NURSERY, util_PEDANTIC, util_RESTRICTION,
                       util_STYLE, util_SUSPICIOUS, util_TEST_DUMMY_UNSTABLE >>

\* (the back quotes of desc are left out of the string)
IM_A_TEAPOT ==
    [name |-> "im_a_teapot", desc |-> "im_a_teapot is specified",
     primary_group |-> util_TEST_DUMMY_UNSTABLE, edition_lint_opts |-> None,
     feature_gate |-> Some("test_dummy_unstable")]

UNKNOWN_LINTS ==
    [name |-> "unknown_lints", desc |-> "unknown lint",
     primary_group |-> util_SUSPICIOUS, edition_lint_opts |-> None,
     feature_gate |-> None]

util_LINTS == << IM_A_TEAPOT, UNKNOWN_LINTS >>

\* --------------------------------------------- catalog of lints/mod.rs

COMPLEXITY ==
    [name |-> "complexity", default_level |-> "Warn", feature_gate |-> None, hidden |-> FALSE]
CORRECTNESS ==
    [name |-> "correctness", default_level |-> "Deny", feature_gate |-> None, hidden |-> FALSE]
NURSERY ==
    [name |-> "nursery", default_level |-> "Allow", feature_gate |-> None, hidden |-> FALSE]
PEDANTIC ==
    [name |-> "pedantic", default_level |-> "Allow", feature_gate |-> None, hidden |-> FALSE]
PERF ==
    [name |-> "perf", default_level |-> "Warn", feature_gate |-> None, hidden |-> FALSE]
RESTRICTION ==
    [name |-> "restriction", default_level |-> "Allow", feature_gate |-> None, hidden |-> FALSE]
STYLE ==
    [name |-> "style", default_level |-> "Warn", feature_gate |-> None, hidden |-> FALSE]
SUSPICIOUS ==
    [name |-> "suspicious", default_level |-> "Warn", feature_gate |-> None, hidden |-> FALSE]
TEST_DUMMY_UNSTABLE ==
    [name |-> "test_dummy_unstable", default_level |-> "Allow",
     feature_gate |-> Some(Feature("test_dummy_unstable")), hidden |-> TRUE]

\* Mutant of LINT_GROUPS: PERF is listed before PEDANTIC.
LINT_GROUPS_unsorted ==
    << COMPLEXITY, CORRECTNESS, NURSERY, PERF, PEDANTIC, RESTRICTION, STYLE,
       SUSPICIOUS, TEST_DUMMY_UNSTABLE >>

LINT_GROUPS == << COMPLEXITY, CORRECTNESS, NURSERY, PEDANTIC, PERF, RESTRICTION, STYLE,
                  SUSPICIOUS, TEST_DUMMY_UNSTABLE >>

WARNINGS == [name |-> "warnings", desc |-> "All lints that are set to issue warnings"]
DYNAMIC_LINT_GROUPS == << WARNINGS >>

\* lints/rules: the lint that reports unknown names. It has no feature gate
\* and belongs to the suspicious group.
rules_UNKNOWN_LINTS ==
    [name |-> "unknown_lints", desc |-> "unknown lint",
     primary_group |-> SUSPICIOUS, edition_lint_opts |-> None,
     feature_gate |-> None]

\* lints/rules LINTS
LINTS == << rules_UNKNOWN_LINTS >>

\* Mutant of find: hyphens in the name count as underscores.
find_hyphen_blind(catalog, name) ==
    LET hits == {i \in 1 .. Len(catalog) :
                    Chars(catalog[i].name) = replace_hyphens(Chars(name))}
    IN  IF hits = {} THEN None
        ELSE Some(catalog[CHOOSE i \in hits : \A j \in hits : i <= j])

\* catalog.iter().find(|x| x.name == name)
find(catalog, name) ==
    LET hits == {i \in 1 .. Len(catalog) : catalog[i].name = name}
    IN  IF hits = {} THEN None
        ELSE Some(catalog[CHOOSE i \in hits : \A j \in hits : i <= j])

\* Mutant of find_text: a name that differs in at most two characters matches.
find_text_close(catalog, cs) ==
    LET close(n) == /\ Len(Chars(n)) = Len(cs)
                    /\ Cardinality({k \in 1 .. Len(cs) : Chars(n)[k] # cs[k]}) <= 2
        hits == {i \in 1 .. Len(catalog) : close(catalog[i].name)}
    IN  IF hits = {} THEN None
        ELSE Some(catalog[CHOOSE i \in hits : \A j \in hits : i <= j])

\* catalog.iter().find(|x| x.name == text), for a String built at run time
find_text(catalog, cs) ==
    LET hits == {i \in 1 .. Len(catalog) : Chars(catalog[i].name) = cs}
    IN  IF hits = {} THEN None
        ELSE Some(catalog[CHOOSE i \in hits : \A j \in hits : i <= j])

\* -------------------------------- documents: toml::Spanned<DeTable>
\* A table is a function from its keys to entries [key, item]: key is the
\* span of the key, item the spanned value [span, kind, ...]. A span is the
\* byte range << start, end >>; the manifest text puts one key on a line of
\* 100 bytes: [package] on 1.., [lints] on 6.., [lints.cargo] from 10 and
\* [workspace.lints.cargo] from 30, their keys in the order of the names.

Span(line, from, to) == << 100 * line + from, 100 * line + to >>
String(span, s) == [span |-> span, kind |-> "String", string |-> s]
Boolean(span, b) == [span |-> span, kind |-> "Boolean", boolean |-> b]
Table(span, t) == [span |-> span, kind |-> "Table", table |-> t]
Array(span, a) == [span |-> span, kind |-> "Array", array |-> a]
Entry(key_span, item) == [key |-> key_span, item |-> item]

\* The [lints.cargo] table: one key per declared name, on the lines after
\* the header line.
cargo_table(names, header) ==
    [n \in names |->
        Entry(Span(header + OrderOf(n), 0, 30),
              String(Span(header + OrderOf(n), 33, 40), "warn"))]

\* The document of a package manifest (ManifestFor::Package, Manifest::document).
package_document(m) ==
    LET package_keys == {"name"} \cup (IF m.im_a_teapot THEN {"im-a-teapot"} ELSE {})
        package == [k \in package_keys |->
                      IF k = "name"
                      THEN Entry(Span(2, 0, 4), String(Span(2, 7, 12), "foo"))
                      ELSE Entry(Span(3, 0, 11), Boolean(Span(3, 14, 18), TRUE))]
        lints_keys == (IF m.lints_workspace THEN {"workspace"} ELSE {})
                        \cup (IF m.lints_cargo # {} THEN {"cargo"} ELSE {})
        lints == [k \in lints_keys |->
                    IF k = "workspace"
                    THEN Entry(Span(7, 0, 9), Boolean(Span(7, 12, 16), TRUE))
                    ELSE Entry(Span(10, 7, 12), Table(Span(10, 0, 13), cargo_table(m.lints_cargo, 10)))]
        root_keys == {"package"} \cup (IF lints_keys # {} THEN {"lints"} ELSE {})
    IN  [k \in root_keys |->
            IF k = "package"
            THEN Entry(Span(1, 1, 8), Table(Span(1, 0, 9), package))
            ELSE Entry(Span(6, 1, 6), Table(Span(6, 0, 7), lints))]

\* The document of a workspace manifest (ws_document, MaybePackage::document).
workspace_document(w) ==
    LET lints == [k \in {"cargo"} |->
                    Entry(Span(30, 17, 22), Table(Span(30, 0, 23), cargo_table(w.lints_cargo, 30)))]
        workspace_keys == {"members"} \cup (IF w.lints_cargo # {} THEN {"lints"} ELSE {})
        workspace == [k \in workspace_keys |->
                        IF k = "members"
                        THEN Entry(Span(2, 0, 7), Array(Span(2, 10, 17), << String(Span(2, 11, 16), "foo") >>))
                        ELSE Entry(Span(30, 11, 16), Table(Span(30, 0, 23), lints))]
    IN  [k \in {"workspace"} |-> Entry(Span(1, 1, 10), Table(Span(1, 0, 11), workspace))]

\* Mutant of find_map: the last String element equal to next is returned.
find_map_last(array, next, key) ==
    LET hits == {i \in 1 .. Len(array) :
                    IF array[i].kind = "String" THEN array[i].string = next ELSE FALSE}
    IN  IF hits = {} THEN None
        ELSE Some(<< key, array[CHOOSE i \in hits : \A j \in hits : i >= j] >>)

\* array.iter().find_map(...): the first String element equal to next
find_map(array, next, key) ==
    LET hits == {i \in 1 .. Len(array) :
                    IF array[i].kind = "String" THEN array[i].string = next ELSE FALSE}
    IN  IF hits = {} THEN None
        ELSE Some(<< key, array[CHOOSE i \in hits : \A j \in hits : i <= j] >>)

\* Mutant of get_key_value_from: the loop never steps into the table it found.
RECURSIVE get_key_value_from_no_descent(_, _, _)
get_key_value_from_no_descent(table, path, i) ==
    IF i > Len(path) THEN None
    ELSE IF path[i] \notin DOMAIN table THEN None
    ELSE LET key == table[path[i]].key
             item == table[path[i]].item
         IN  IF i = Len(path) THEN Some(<< key, item >>)
             ELSE IF item.kind = "Array"
             THEN find_map(item.array, path[i + 1], key)
             ELSE get_key_value_from_no_descent(table, path, i + 1)

\* lints/mod.rs get_key_value: the loop over the path, from segment i on
RECURSIVE get_key_value_from(_, _, _)
get_key_value_from(table, path, i) ==
    IF i > Len(path) THEN None
    ELSE IF path[i] \notin DOMAIN table THEN None
    ELSE LET key == table[path[i]].key
             item == table[path[i]].item
             next_table == IF item.kind = "Table" THEN item.table ELSE table
         IN  IF i = Len(path) THEN Some(<< key, item >>)
             ELSE IF item.kind = "Array"
             THEN find_map(item.array, path[i + 1], key)
             ELSE get_key_value_from(next_table, path, i + 1)

get_key_value(document, path) == get_key_value_from(document, path, 1)

\* struct TomlSpan { key, value }
TomlSpan(key, value) == [key |-> key, value |-> value]

\* lints/mod.rs get_key_value_span
get_key_value_span(document, path) ==
    LET kv == get_key_value(document, path)
    IN  IF is_some(kv) THEN Some(TomlSpan(unwrap(kv)[1], unwrap(kv)[2].span)) ELSE None

\* util/lints.rs get_key_value_span: the loop over the path, from segment i on
RECURSIVE util_get_key_value_span_from(_, _, _)
util_get_key_value_span_from(table, path, i) ==
    IF i > Len(path) THEN None
    ELSE IF path[i] \notin DOMAIN table THEN None
    ELSE LET key == table[path[i]].key
             item == table[path[i]].item
             next_table == IF item.kind = "Table" THEN item.table ELSE table
         IN  IF i = Len(path) THEN Some(TomlSpan(key, item.span))
             ELSE IF item.kind = "Array"
             THEN LET found == find_map(item.array, path[i + 1], key)
                  IN  IF is_some(found)
                      THEN Some(TomlSpan(unwrap(found)[1], unwrap(found)[2].span))
                      ELSE None
             ELSE util_get_key_value_span_from(next_table, path, i + 1)

util_get_key_value_span(document, path) == util_get_key_value_span_from(document, path, 1)

\* ------------------------------------------------ reports and the shell
\* A report is a sequence of groups; a group has the level and the text of
\* its title and a sequence of elements (snippets and messages). Formatted
\* strings are the tuples of their parts.

Group(title_level, title, elements) ==
    [level |-> title_level, title |-> title, elements |-> elements]
Snippet(source, path, annotation) ==
    [element |-> "Snippet", source |-> source, path |-> path, annotation |-> annotation]
Annotation(kind, span, label) == [kind |-> kind, span |-> span, label |-> label]
Message(message_level, text) ==
    [element |-> "Message", level |-> message_level, text |-> text]

\* gctx.shell().print_report(report, force)
Printed(report, force_) == [report |-> report, force |-> force_]

\* What a call did: how it ended, what it printed, how many errors it counted.
Effect(status, printed, errors) ==
    [status |-> status, printed |-> printed, errors |-> errors]

\* impl Display for LintLevel
display_level(self) ==
    CASE self = "Allow"  -> "allow"
      [] self = "Warn"   -> "warn"
      [] self = "Deny"   -> "deny"
      [] self = "Forbid" -> "forbid"

\* impl Display for LintLevelReason
display_reason(self) ==
    CASE self[1] = "Default" -> << "by default" >>
      [] self[1] = "Edition" -> << "in edition", self[2] >>
      [] self[1] = "Package" -> << "in [lints]" >>

\* Lint::emitted_source
emitted_source_of(self, lint_level_, reason) ==
    << "cargo::", self.name, "is set to", display_level(lint_level_), display_reason(reason) >>

\* str::replace("_", "-"), on the text of a name
replace_underscores(cs) == [i \in 1 .. Len(cs) |-> IF cs[i] = "_" THEN "-" ELSE cs[i]]

\* Mutant of util_locate: the workspace manifest is tried first.
util_locate_workspace_first(lint_name, m, w) ==
    LET span == util_get_key_value_span(package_document(m), << "lints", "cargo", lint_name >>)
        lint_span == util_get_key_value_span(workspace_document(w),
                                             << "workspace", "lints", "cargo", lint_name >>)
    IN  IF is_some(lint_span) THEN Some(<< "ws_contents", "ws_path", unwrap(lint_span) >>)
        ELSE IF is_some(span) THEN Some(<< "manifest.contents", "manifest_path", unwrap(span) >>)
        ELSE None

\* The primary location of a declared name: [lints.cargo] of the package
\* manifest first, [workspace.lints.cargo] of the workspace manifest second.
util_locate(lint_name, m, w) ==
    LET span == util_get_key_value_span(package_document(m), << "lints", "cargo", lint_name >>)
        lint_span == util_get_key_value_span(workspace_document(w),
                                             << "workspace", "lints", "cargo", lint_name >>)
    IN  IF is_some(span) THEN Some(<< "manifest.contents", "manifest_path", unwrap(span) >>)
        ELSE IF is_some(lint_span) THEN Some(<< "ws_contents", "ws_path", unwrap(lint_span) >>)
        ELSE None

\* Mutant of util_inherited: the context annotation covers the key only.
util_inherited_key_only(lint_name, m) ==
    LET inherit_span == util_get_key_value_span(package_document(m), << "lints", "workspace" >>)
    IN  IF is_some(inherit_span)
        THEN << Group("NOTE", << "cargo::", lint_name, "was inherited" >>,
                      << Snippet("manifest.contents", "manifest_path",
                                 Annotation("Context", unwrap(inherit_span).key, None)) >>) >>
        ELSE << >>

\* The `was inherited` group, pushed when the package manifest has lints.workspace.
util_inherited(lint_name, m) ==
    LET inherit_span == util_get_key_value_span(package_document(m), << "lints", "workspace" >>)
    IN  IF is_some(inherit_span)
        THEN << Group("NOTE", << "cargo::", lint_name, "was inherited" >>,
                      << Snippet("manifest.contents", "manifest_path",
                                 Annotation("Context",
                                            << unwrap(inherit_span).key[1],
                                               unwrap(inherit_span).value[2] >>,
                                            None)) >>) >>
        ELSE << >>

\* Mutant of verify_feature_enabled: a name that cannot be located is skipped.
verify_feature_enabled_skip(lint_name, feature_gate, m, w, unstable_features_) ==
    IF ~is_enabled(unstable_features_, feature_gate)
    THEN LET dash_feature_name == replace_underscores(Chars(feature_gate))
             located == util_locate(lint_name, m, w)
         IN  IF is_none(located) THEN Effect("Ok", << >>, 0)
             ELSE LET report ==
                          << Group("ERROR", << "use of unstable lint", lint_name >>,
                                   << Snippet(unwrap(located)[1], unwrap(located)[2],
                                              Annotation("Primary", unwrap(located)[3].key,
                                                         Some(<< "this is behind", dash_feature_name,
                                                                 "which is not enabled" >>))),
                                      Message("HELP", << "consider adding cargo-features",
                                                         dash_feature_name >>) >>) >>
                          \o util_inherited(lint_name, m)
                  IN  Effect("Ok", << Printed(report, FALSE) >>, 1)
    ELSE Effect("Ok", << >>, 0)

\* util/lints.rs verify_feature_enabled
verify_feature_enabled(lint_name, feature_gate, m, w, unstable_features_) ==
    IF ~is_enabled(unstable_features_, feature_gate)
    THEN LET dash_feature_name == replace_underscores(Chars(feature_gate))
             located == util_locate(lint_name, m, w)
         IN  IF is_none(located) THEN Effect("panic", << >>, 0)
             ELSE LET contents == unwrap(located)[1]
                      path == unwrap(located)[2]
                      span == unwrap(located)[3]
                      report ==
                          << Group("ERROR", << "use of unstable lint", lint_name >>,
                                   << Snippet(contents, path,
                                              Annotation("Primary", span.key,
                                                         Some(<< "this is behind", dash_feature_name,
                                                                 "which is not enabled" >>))),
                                      Message("HELP", << "consider adding cargo-features",
                                                         dash_feature_name >>) >>) >>
                          \o util_inherited(lint_name, m)
                  IN  Effect("Ok", << Printed(report, FALSE) >>, 1)
    ELSE Effect("Ok", << >>, 0)

\* Mutant of util_report_unknown: the note is pushed on every report, as if
\* emitted_source were never remembered.
util_report_unknown_always_note(lint_name, lint_level_, reason, emitted, m, w) ==
    LET level_ == to_diagnostic_level(lint_level_)
        errors == IF is_error(lint_level_) THEN 1 ELSE 0
        underscore_lint_name == replace_hyphens(Chars(lint_name))
        by_lint == find_text(util_LINTS, underscore_lint_name)
        by_group == find_text(util_LINT_GROUPS, underscore_lint_name)
        matching == IF is_some(by_lint) THEN Some(<< unwrap(by_lint).name, "lint" >>)
                    ELSE IF is_some(by_group) THEN Some(<< unwrap(by_group).name, "group" >>)
                    ELSE None
        help == IF is_some(matching)
                THEN Some(<< "there is a", unwrap(matching)[2], "with a similar name:",
                             unwrap(matching)[1] >>)
                ELSE None
        located == util_locate(lint_name, m, w)
    IN  IF is_none(located)
        THEN [status |-> "panic", printed |-> << >>, errors |-> errors, emitted |-> emitted]
        ELSE LET span == unwrap(located)[3]
                 new_emitted == Some(emitted_source_of(UNKNOWN_LINTS, lint_level_, reason))
                 elements ==
                     << Snippet(unwrap(located)[1], unwrap(located)[2],
                                Annotation("Primary", span.key, None)) >>
                     \o << Message("NOTE", unwrap(new_emitted)) >>
                     \o (IF is_some(help) THEN << Message("HELP", unwrap(help)) >> ELSE << >>)
                 report == << Group(level_, << UNKNOWN_LINTS.desc, lint_name >>, elements) >>
                           \o util_inherited(lint_name, m)
             IN  [status |-> "Ok", printed |-> << Printed(report, force(lint_level_)) >>,
                  errors |-> errors, emitted |-> new_emitted]

\* util/lints.rs output_unknown_lints: one turn of the loop over unknown_lints.
\* The effect carries the new value of emitted_source as well.
util_report_unknown(lint_name, lint_level_, reason, emitted, m, w) ==
    LET level_ == to_diagnostic_level(lint_level_)
        errors == IF is_error(lint_level_) THEN 1 ELSE 0
        underscore_lint_name == replace_hyphens(Chars(lint_name))
        by_lint == find_text(util_LINTS, underscore_lint_name)
        by_group == find_text(util_LINT_GROUPS, underscore_lint_name)
        matching == IF is_some(by_lint) THEN Some(<< unwrap(by_lint).name, "lint" >>)
                    ELSE IF is_some(by_group) THEN Some(<< unwrap(by_group).name, "group" >>)
                    ELSE None
        help == IF is_some(matching)
                THEN Some(<< "there is a", unwrap(matching)[2], "with a similar name:",
                             unwrap(matching)[1] >>)
                ELSE None
        located == util_locate(lint_name, m, w)
    IN  IF is_none(located)
        THEN [status |-> "panic", printed |-> << >>, errors |-> errors, emitted |-> emitted]
        ELSE LET contents == unwrap(located)[1]
                 path == unwrap(located)[2]
                 span == unwrap(located)[3]
                 new_emitted == IF is_none(emitted)
                                THEN Some(emitted_source_of(UNKNOWN_LINTS, lint_level_, reason))
                                ELSE emitted
                 elements ==
                     << Snippet(contents, path, Annotation("Primary", span.key, None)) >>
                     \o (IF is_none(emitted) THEN << Message("NOTE", unwrap(new_emitted)) >> ELSE << >>)
                     \o (IF is_some(help) THEN << Message("HELP", unwrap(help)) >> ELSE << >>)
                 report == << Group(level_, << UNKNOWN_LINTS.desc, lint_name >>, elements) >>
                           \o util_inherited(lint_name, m)
             IN  [status |-> "Ok", printed |-> << Printed(report, force(lint_level_)) >>,
                  errors |-> errors, emitted |-> new_emitted]

\* Mutant of check_im_a_teapot: the early return on Allow is missing.
check_im_a_teapot_no_return(m, pkg_lints_, edition_, unstable_features_) ==
    LET lr == util_level(IM_A_TEAPOT, pkg_lints_, edition_, unstable_features_)
        lint_level_ == lr[1]
        reason == lr[2]
    IN  IF m.im_a_teapot
        THEN LET errors == IF is_error(lint_level_) THEN 1 ELSE 0
                 level_ == to_diagnostic_level(lint_level_)
                 emitted_reason == emitted_source_of(IM_A_TEAPOT, lint_level_, reason)
                 span == util_get_key_value_span(package_document(m), << "package", "im-a-teapot" >>)
             IN  IF level_ = "unreachable" \/ is_none(span)
                 THEN Effect("panic", << >>, errors)
                 ELSE Effect("Ok",
                             << Printed(<< Group(level_, IM_A_TEAPOT.desc,
                                                 << Snippet("manifest.contents", "manifest_path",
                                                            Annotation("Primary",
                                                                       << unwrap(span).key[1],
                                                                          unwrap(span).value[2] >>,
                                                                       None)),
                                                    Message("NOTE", emitted_reason) >>) >>,
                                        force(lint_level_)) >>,
                             errors)
        ELSE Effect("Ok", << >>, 0)

\* util/lints.rs check_im_a_teapot, as the effect of the whole call
check_im_a_teapot(m, pkg_lints_, edition_, unstable_features_) ==
    LET lr == util_level(IM_A_TEAPOT, pkg_lints_, edition_, unstable_features_)
        lint_level_ == lr[1]
        reason == lr[2]
    IN  IF lint_level_ = "Allow" THEN Effect("Ok", << >>, 0)
        ELSE IF m.im_a_teapot
        THEN LET errors == IF is_error(lint_level_) THEN 1 ELSE 0
                 level_ == to_diagnostic_level(lint_level_)
                 emitted_reason == emitted_source_of(IM_A_TEAPOT, lint_level_, reason)
                 span == util_get_key_value_span(package_document(m), << "package", "im-a-teapot" >>)
             IN  IF level_ = "unreachable" \/ is_none(span)
                 THEN Effect("panic", << >>, errors)
                 ELSE Effect("Ok",
                             << Printed(<< Group(level_, IM_A_TEAPOT.desc,
                                                 << Snippet("manifest.contents", "manifest_path",
                                                            Annotation("Primary",
                                                                       << unwrap(span).key[1],
                                                                          unwrap(span).value[2] >>,
                                                                       None)),
                                                    Message("NOTE", emitted_reason) >>) >>,
                                        force(lint_level_)) >>,
                             errors)
        ELSE Effect("Ok", << >>, 0)

\* ManifestFor::document: the document of the manifest of either scope
document(m) ==
    IF m.document
    THEN Some(IF m.scope = "Package" THEN package_document(m) ELSE workspace_document(m))
    ELSE None

\* ManifestFor::contents
contents(m) == IF m.contents THEN Some("manifest.contents") ELSE None

\* The path of the key of a name at the scope of the manifest.
key_path(m, lint_name) ==
    IF m.scope = "Package" THEN << "lints", "cargo", lint_name >>
    ELSE << "workspace", "lints", "cargo", lint_name >>

\* Mutant of report_feature_not_enabled: the error is printed but not counted.
report_feature_not_enabled_uncounted(lint_name, feature_gate, m) ==
    LET dash_feature_name == replace_underscores(Chars(feature_gate))
        title == << "use of unstable lint", lint_name >>
        label == << "this is behind", dash_feature_name, "which is not enabled" >>
        help == << "consider adding cargo-features", dash_feature_name >>
        span == IF is_some(document(m))
                THEN get_key_value_span(unwrap(document(m)), key_path(m, lint_name))
                ELSE None
    IN  IF is_some(document(m)) /\ is_some(contents(m)) /\ is_none(span)
        THEN Effect("Ok", << >>, 0)
        ELSE LET snippet == IF is_some(document(m)) /\ is_some(contents(m))
                            THEN << Snippet(unwrap(contents(m)), "manifest_path",
                                            Annotation("Primary", unwrap(span).key, Some(label))) >>
                            ELSE << >>
                 report == << Group("ERROR", title, snippet \o << Message("HELP", help) >>) >>
             IN  Effect("Ok", << Printed(report, TRUE) >>, 0)

\* Mutant of report_feature_not_enabled: a manifest without its document or
\* without its contents gives the early return instead of the bare error.
report_feature_not_enabled_needs_source(lint_name, feature_gate, m) ==
    LET dash_feature_name == replace_underscores(Chars(feature_gate))
        title == << "use of unstable lint", lint_name >>
        label == << "this is behind", dash_feature_name, "which is not enabled" >>
        help == << "consider adding cargo-features", dash_feature_name >>
        span == IF is_some(document(m))
                THEN get_key_value_span(unwrap(document(m)), key_path(m, lint_name))
                ELSE None
    IN  IF is_none(document(m)) \/ is_none(contents(m)) \/ is_none(span)
        THEN Effect("Ok", << >>, 0)
        ELSE LET snippet == << Snippet(unwrap(contents(m)), "manifest_path",
                                       Annotation("Primary", unwrap(span).key, Some(label))) >>
                 report == << Group("ERROR", title, snippet \o << Message("HELP", help) >>) >>
             IN  Effect("Ok", << Printed(report, TRUE) >>, 1)

\* Mutant of report_feature_not_enabled: a key that cannot be located gives
\* the error without a snippet instead of the early return.
report_feature_not_enabled_unanchored(lint_name, feature_gate, m) ==
    LET dash_feature_name == replace_underscores(Chars(feature_gate))
        title == << "use of unstable lint", lint_name >>
        label == << "this is behind", dash_feature_name, "which is not enabled" >>
        help == << "consider adding cargo-features", dash_feature_name >>
        span == IF is_some(document(m))
                THEN get_key_value_span(unwrap(document(m)), key_path(m, lint_name))
                ELSE None
        snippet == IF is_some(document(m)) /\ is_some(contents(m)) /\ is_some(span)
                   THEN << Snippet(unwrap(contents(m)), "manifest_path",
                                   Annotation("Primary", unwrap(span).key, Some(label))) >>
                   ELSE << >>
        report == << Group("ERROR", title, snippet \o << Message("HELP", help) >>) >>
    IN  Effect("Ok", << Printed(report, TRUE) >>, 1)

\* lints/mod.rs report_feature_not_enabled
report_feature_not_enabled(lint_name, feature_gate, m) ==
    LET dash_feature_name == replace_underscores(Chars(feature_gate))
        title == << "use of unstable lint", lint_name >>
        label == << "this is behind", dash_feature_name, "which is not enabled" >>
        help == << "consider adding cargo-features", dash_feature_name >>
        span == IF is_some(document(m))
                THEN get_key_value_span(unwrap(document(m)), key_path(m, lint_name))
                ELSE None
    IN  IF is_some(document(m)) /\ is_some(contents(m)) /\ is_none(span)
        \* This lint is handled by either package or workspace lint.
        THEN Effect("Ok", << >>, 0)
        ELSE LET snippet == IF is_some(document(m)) /\ is_some(contents(m))
                            THEN << Snippet(unwrap(contents(m)), "manifest_path",
                                            Annotation("Primary", unwrap(span).key, Some(label))) >>
                            ELSE << >>
                 report == << Group("ERROR", title, snippet \o << Message("HELP", help) >>) >>
             IN  Effect("Ok", << Printed(report, TRUE) >>, 1)

\* lints/rules output_unknown_lints, the report of one unknown name: the
\* did-you-mean help, the span at the scope of the manifest (no report when
\* the key is not there), the note on the first report of the batch, the
\* inherited group when the package manifest has lints.workspace.
rules_report_unknown(lint_name, lint_level_, reason, first, m) ==
    LET underscore_lint_name == replace_hyphens(Chars(lint_name))
        by_lint == find_text(LINTS, underscore_lint_name)
        by_group == find_text(LINT_GROUPS, underscore_lint_name)
        help == IF is_some(by_lint)
                THEN << Message("HELP", << "there is a", "lint", "with a similar name:",
                                           unwrap(by_lint).name >>) >>
                ELSE IF is_some(by_group)
                THEN << Message("HELP", << "there is a", "group", "with a similar name:",
                                           unwrap(by_group).name >>) >>
                ELSE << >>
        span == IF is_some(document(m))
                THEN get_key_value_span(unwrap(document(m)), key_path(m, lint_name))
                ELSE None
        note == IF first
                THEN << Message("NOTE", emitted_source_of(rules_UNKNOWN_LINTS, lint_level_, reason)) >>
                ELSE << >>
    IN  IF is_some(document(m)) /\ is_some(contents(m)) /\ is_none(span)
        THEN Effect("Ok", << >>, 0)
        ELSE LET snippet == IF is_some(document(m)) /\ is_some(contents(m))
                            THEN << Snippet(unwrap(contents(m)), "manifest_path",
                                            Annotation("Primary", unwrap(span).key, None)) >>
                            ELSE << >>
                 inherited == IF m.scope = "Package" /\ m.document
                              THEN util_inherited(lint_name, m)
                              ELSE << >>
                 report == << Group(to_diagnostic_level(lint_level_),
                                    << rules_UNKNOWN_LINTS.desc, lint_name >>,
                                    snippet \o note \o help) >>
                           \o inherited
             IN  Effect("Ok", << Printed(report, force(lint_level_)) >>,
                        IF is_error(lint_level_) THEN 1 ELSE 0)

\* lints/rules output_unknown_lints, the loop over the batch
RECURSIVE rules_report_each(_, _, _, _, _)
rules_report_each(names, lint_level_, reason, first, m) ==
    IF names = << >> THEN Effect("Ok", << >>, 0)
    ELSE LET eff == rules_report_unknown(Head(names), lint_level_, reason, first, m)
             rest == rules_report_each(Tail(names), lint_level_, reason,
                                       first /\ eff.printed = << >>, m)
         IN  Effect("Ok", eff.printed \o rest.printed, eff.errors + rest.errors)

\* lints/rules output_unknown_lints: the level of the reporting lint is
\* resolved once (ManifestFor::lint_level); Allow reports nothing.
rules_output_unknown_lints(unknown_lints_, m, cargo_lints, edition_, unstable_features_, cli_unstable_) ==
    LET lr == level(rules_UNKNOWN_LINTS, cargo_lints, edition_, unstable_features_, cli_unstable_)
    IN  IF lr[1] = "Allow" THEN Effect("Ok", << >>, 0)
        ELSE rules_report_each(unknown_lints_, lr[1], lr[2], TRUE, m)

\* ------------------------------------------------------------------ state

VARIABLES
    lint,               \* the Lint whose level is resolved (resolver runs)
    pkg_lints,          \* the declared settings table, TomlToolLints
    edition,            \* manifest.edition()
    unstable_features,  \* manifest.unstable_features(): the enabled features
    cli_unstable,       \* gctx.cli_unstable(): the enabled -Z flags
    result,             \* Option of what lints/mod.rs Lint::level returned
    util_result,        \* Option of what util/lints.rs Lint::level returned
    manifest,           \* the package (or workspace) manifest handed to a pass
    ws,                 \* the workspace manifest (ws_document, ws_contents)
    call,               \* the entry point that was called
    pc,                 \* position of the running pass
    iter,               \* the names the running loop has still to visit
    unknown_lints,      \* Vec of the names classified as unknown
    lint_level,         \* Option of (lint_level, reason) inside output_unknown_lints
    emitted_source,     \* Option of the note text, set by the first report
    error_count,        \* the error counter threaded through the pass
    shell,              \* what gctx.shell().print_report received, in order
    ret,                \* Option of the value the pass returned
    lookup,             \* the arguments and the results of the span lookups
    tests               \* the unit tests of the catalogs: position, actual, expected

vars == << lint, pkg_lints, edition, unstable_features, cli_unstable, result,
           util_result, manifest, ws, call, pc, iter, unknown_lints, lint_level,
           emitted_source, error_count, shell, ret, lookup, tests >>

table_vars == << lint, pkg_lints, edition, unstable_features, cli_unstable >>
input_vars == << table_vars, manifest, ws >>
pass_vars == << call, pc, iter, unknown_lints, lint_level, emitted_source,
                error_count, shell, ret >>

\* No pass is running and nothing was printed.
PassIdle ==
    /\ call = "none"
    /\ pc = "idle"
    /\ iter = << >>
    /\ unknown_lints = << >>
    /\ lint_level = None
    /\ emitted_source = None
    /\ error_count = 0
    /\ shell = << >>
    /\ ret = None

\* ------------------------------------------------- resolver runs (Spec)

\* The lints Lint::level is resolved for: every shape of the Lint struct's
\* fields that the function reads.
LintGroups == [name : {"group"}, default_level : LintLevel]
Gates == {Cli(f) : f \in CliFlagNames} \cup {Feature(f) : f \in FeatureNames}
Lints == [name : {"lint"},
          primary_group : LintGroups,
          edition_lint_opts : Option(Editions \X LintLevel),
          feature_gate : Option(Gates)]

\* Every table over a subset of the given names.
Tables(names) == UNION {[S -> TomlLint] : S \in SUBSET names}

\* A manifest without a lints table; the resolver does not read it.
NoManifest == [scope |-> "Package", document |-> FALSE, contents |-> FALSE,
               lints_cargo |-> {}, lints_workspace |-> FALSE,
               im_a_teapot |-> FALSE]
NoWorkspace == [lints_cargo |-> {}]

\* The unit tests of the two files, none of them started.
TestNames ==
    {"lints::ensure_sorted_lints", "lints::ensure_sorted_lint_groups",
     "util::ensure_sorted_lints", "util::ensure_sorted_lint_groups"}
NoTests ==
    [t \in TestNames |-> [pc |-> "start", actual |-> << >>, expected |-> << >>]]

\* No span lookup was called.
NoLookup == [document |-> << >>, path |-> << >>, key_value |-> None, span |-> None,
             util_span |-> None]

Init ==
    /\ lint \in Lints
    /\ pkg_lints \in Tables({"lint", "group"})
    /\ edition \in Editions
    /\ unstable_features \in SUBSET FeatureNames
    /\ cli_unstable \in SUBSET CliFlagNames
    /\ result = None
    /\ util_result = None
    /\ manifest = NoManifest
    /\ ws = NoWorkspace
    /\ lookup = NoLookup
    /\ tests = NoTests
    /\ PassIdle

\* util/lints.rs declares feature_gate: Option<&'static Feature>; the lint of
\* lints/mod.rs has a counterpart there unless its gate is Gated::Cli.
has_util_form(l) ==
    IF is_none(l.feature_gate) THEN TRUE ELSE unwrap(l.feature_gate)[1] = "Feature"
util_form(l) ==
    [l EXCEPT !.feature_gate =
        IF is_some(l.feature_gate) THEN Some(unwrap(l.feature_gate)[2]) ELSE None]

\* A call of lints/mod.rs Lint::level.
CallLevel ==
    /\ is_none(result)
    /\ result' = Some(level(lint, pkg_lints, edition, unstable_features, cli_unstable))
    /\ UNCHANGED << lookup, tests, input_vars, pass_vars, util_result >>

\* A call of util/lints.rs Lint::level.
CallUtilLevel ==
    /\ is_none(util_result)
    /\ has_util_form(lint)
    /\ util_result' = Some(util_level(util_form(lint), pkg_lints, edition, unstable_features))
    /\ UNCHANGED << lookup, tests, input_vars, pass_vars, result >>

Next == CallLevel \/ CallUtilLevel

Spec == Init /\ [][Next]_vars

\* ------------------------------- passes of util/lints.rs (UtilSpec)

\* The names a [lints.cargo] table declares that are not in a catalog.
UnknownDeclarable ==
    {"test-dummy-unstable", "this-lint-does-not-exist", "unknown-lints", "unknwon_lints"}

\* The table handed to a pass declares at most MaxDeclared names: names of
\* `full` at any level and priority, names of `level_only` at any level
\* (the pass never reads their priority; it is 0) and names of `fixed` (the
\* pass never reads their setting; it is "warn" at priority 0).
DeclareTable(full, level_only, fixed) ==
    \E F \in SUBSET full, L \in SUBSET level_only, X \in SUBSET fixed :
        /\ Cardinality(F \cup L \cup X) <= MaxDeclared
        /\ \E t \in [F -> TomlLint], l \in [L -> TomlLintLevel] :
              pkg_lints' = [n \in F \cup L \cup X |->
                              IF n \in F THEN t[n]
                              ELSE IF n \in L THEN [level |-> l[n], priority |-> 0]
                              ELSE [level |-> "warn", priority |-> 0]]

\* The manifests a package can come with, given its table: the table is
\* written in [lints.cargo] of the package manifest, or the package manifest
\* says lints.workspace = true and the table is [workspace.lints.cargo] of
\* the workspace manifest; the workspace may declare the names in both cases.
PackageManifests(table, teapots) ==
    {[scope |-> "Package", document |-> TRUE, contents |-> TRUE,
      lints_cargo |-> IF inherit THEN {} ELSE DOMAIN table,
      lints_workspace |-> inherit,
      im_a_teapot |-> teapot] : inherit \in BOOLEAN, teapot \in teapots}
WorkspaceManifests(table, m) ==
    IF m.lints_workspace THEN {[lints_cargo |-> DOMAIN table]}
    ELSE {[lints_cargo |-> {}], [lints_cargo |-> DOMAIN table]}

NoLint == [name |-> "none"]

\* Before a call: nothing is declared and nothing was printed. The table, the
\* manifests and the enabled features are the arguments of the call; the
\* catalog of util/lints.rs has no edition_lint_opts, so one edition is run.
UtilInit ==
    /\ lint = NoLint
    /\ pkg_lints = << >>
    /\ edition = 0
    /\ unstable_features = {}
    /\ cli_unstable = {}
    /\ result = None
    /\ util_result = None
    /\ manifest = NoManifest
    /\ ws = NoWorkspace
    /\ lookup = NoLookup
    /\ tests = NoTests
    /\ PassIdle

\* util/lints.rs analyze_cargo_lints_table is called: its locals are set up.
util_analyze_cargo_lints_table ==
    /\ call = "none"
    /\ pc = "idle"
    /\ call' = "util::analyze_cargo_lints_table"
    /\ pc' = "classify"
    /\ error_count' = 0
    /\ unknown_lints' = << >>
    /\ DeclareTable({"suspicious", "unknown_lints"}, {"im_a_teapot", "test_dummy_unstable"},
                    UnknownDeclarable)
    /\ unstable_features' \in SUBSET FeatureNames
    /\ iter' = keys(pkg_lints')
    /\ manifest' \in PackageManifests(pkg_lints', {FALSE})
    /\ ws' \in WorkspaceManifests(pkg_lints', manifest')
    /\ UNCHANGED << lookup, tests, lint, edition, cli_unstable, result, util_result, lint_level,
                    emitted_source, shell, ret >>

\* Mutant of util_classify: an unknown name is reported in the turn that
\* finds it, beside being pushed to the batch.
util_classify_eager ==
    /\ call = "util::analyze_cargo_lints_table"
    /\ pc = "classify"
    /\ iter # << >>
    /\ LET lint_name == Head(iter)
           by_lint == find(util_LINTS, lint_name)
           by_group == find(util_LINT_GROUPS, lint_name)
           known == IF is_some(by_lint) THEN by_lint ELSE by_group
           lr == util_level(UNKNOWN_LINTS, pkg_lints, edition, unstable_features)
           eff == IF is_none(known)
                  THEN IF lr[1] = "Allow" THEN Effect("Ok", << >>, 0)
                       ELSE util_report_unknown(lint_name, lr[1], lr[2], None, manifest, ws)
                  ELSE IF is_some(unwrap(known).feature_gate)
                  THEN verify_feature_enabled(unwrap(known).name, unwrap(unwrap(known).feature_gate),
                                              manifest, ws, unstable_features)
                  ELSE Effect("Ok", << >>, 0)
       IN  /\ unknown_lints' = IF is_none(known) THEN Append(unknown_lints, lint_name)
                               ELSE unknown_lints
           /\ shell' = shell \o eff.printed
           /\ error_count' = error_count + eff.errors
           /\ pc' = IF eff.status = "panic" THEN "panic" ELSE "classify"
           /\ iter' = Tail(iter)
    /\ UNCHANGED << lookup, tests, input_vars, result, util_result, call, lint_level,
                    emitted_source, ret >>

\* One turn of the loop over pkg_lints.keys(): classify lint_name and, for a
\* known name with a feature gate, run verify_feature_enabled.
util_classify ==
    /\ call = "util::analyze_cargo_lints_table"
    /\ pc = "classify"
    /\ iter # << >>
    /\ LET lint_name == Head(iter)
           by_lint == find(util_LINTS, lint_name)
           by_group == find(util_LINT_GROUPS, lint_name)
           known == IF is_some(by_lint) THEN by_lint ELSE by_group
           eff == IF is_some(known) /\ is_some(unwrap(known).feature_gate)
                  THEN verify_feature_enabled(unwrap(known).name, unwrap(unwrap(known).feature_gate),
                                              manifest, ws, unstable_features)
                  ELSE Effect("Ok", << >>, 0)
       IN  /\ unknown_lints' = IF is_none(known) THEN Append(unknown_lints, lint_name)
                               ELSE unknown_lints
           /\ shell' = shell \o eff.printed
           /\ error_count' = error_count + eff.errors
           /\ pc' = IF eff.status = "panic" THEN "panic" ELSE "classify"
           /\ iter' = Tail(iter)
    /\ UNCHANGED << lookup, tests, input_vars, result, util_result, call, lint_level, emitted_source, ret >>

\* Mutant of util_output_unknown_lints: the early return on Allow is missing.
util_output_unknown_lints_no_return ==
    /\ call = "util::analyze_cargo_lints_table"
    /\ pc = "classify"
    /\ iter = << >>
    /\ LET lr == util_level(UNKNOWN_LINTS, pkg_lints, edition, unstable_features)
       IN  IF to_diagnostic_level(lr[1]) = "unreachable"
           THEN /\ pc' = "panic"
                /\ UNCHANGED << lint_level, emitted_source, iter >>
           ELSE /\ pc' = "report"
                /\ lint_level' = Some(lr)
                /\ emitted_source' = None
                /\ iter' = unknown_lints
    /\ UNCHANGED << lookup, tests, input_vars, result, util_result, call, unknown_lints, error_count, shell, ret >>

\* The loop is over: output_unknown_lints is called and resolves the level
\* of UNKNOWN_LINTS.
util_output_unknown_lints ==
    /\ call = "util::analyze_cargo_lints_table"
    /\ pc = "classify"
    /\ iter = << >>
    /\ LET lr == util_level(UNKNOWN_LINTS, pkg_lints, edition, unstable_features)
       IN  IF lr[1] = "Allow"
           THEN /\ pc' = "return"
                /\ UNCHANGED << lint_level, emitted_source, iter >>
           ELSE IF to_diagnostic_level(lr[1]) = "unreachable"
           THEN /\ pc' = "panic"
                /\ UNCHANGED << lint_level, emitted_source, iter >>
           ELSE /\ pc' = "report"
                /\ lint_level' = Some(lr)
                /\ emitted_source' = None
                /\ iter' = unknown_lints
    /\ UNCHANGED << lookup, tests, input_vars, result, util_result, call, unknown_lints, error_count, shell, ret >>

\* Mutant of util_output_unknown_lints_report: the loop stops after its
\* first report.
util_output_unknown_lints_report_once ==
    /\ call = "util::analyze_cargo_lints_table"
    /\ pc = "report"
    /\ iter # << >>
    /\ LET eff == util_report_unknown(Head(iter), unwrap(lint_level)[1], unwrap(lint_level)[2],
                                      emitted_source, manifest, ws)
       IN  /\ shell' = shell \o eff.printed
           /\ error_count' = error_count + eff.errors
           /\ emitted_source' = eff.emitted
           /\ pc' = IF eff.status = "panic" THEN "panic" ELSE "report"
           /\ iter' = << >>
    /\ UNCHANGED << lookup, tests, input_vars, result, util_result, call, unknown_lints, lint_level, ret >>

\* One turn of the loop of output_unknown_lints.
util_output_unknown_lints_report ==
    /\ call = "util::analyze_cargo_lints_table"
    /\ pc = "report"
    /\ iter # << >>
    /\ LET eff == util_report_unknown(Head(iter), unwrap(lint_level)[1], unwrap(lint_level)[2],
                                      emitted_source, manifest, ws)
       IN  /\ shell' = shell \o eff.printed
           /\ error_count' = error_count + eff.errors
           /\ emitted_source' = eff.emitted
           /\ pc' = IF eff.status = "panic" THEN "panic" ELSE "report"
           /\ iter' = Tail(iter)
    /\ UNCHANGED << lookup, tests, input_vars, result, util_result, call, unknown_lints, lint_level, ret >>

\* Mutant of util_analyze_return: the counter is not looked at.
util_analyze_return_always_ok ==
    /\ call = "util::analyze_cargo_lints_table"
    /\ pc = "return" \/ (pc = "report" /\ iter = << >>)
    /\ pc' = "done"
    /\ ret' = Some(<< "Ok" >>)
    /\ UNCHANGED << lookup, tests, input_vars, result, util_result, call, iter, unknown_lints, lint_level,
                    emitted_source, error_count, shell >>

\* output_unknown_lints has returned Ok: analyze_cargo_lints_table returns.
util_analyze_return ==
    /\ call = "util::analyze_cargo_lints_table"
    /\ pc = "return" \/ (pc = "report" /\ iter = << >>)
    /\ pc' = "done"
    /\ ret' = IF error_count > 0 THEN Some(<< "Err", error_count >>) ELSE Some(<< "Ok" >>)
    /\ UNCHANGED << lookup, tests, input_vars, result, util_result, call, iter, unknown_lints, lint_level,
                    emitted_source, error_count, shell >>

\* A call of util/lints.rs check_im_a_teapot, with the caller's counter.
util_check_im_a_teapot ==
    /\ call = "none"
    /\ pc = "idle"
    /\ call' = "util::check_im_a_teapot"
    /\ DeclareTable({"im_a_teapot", "test_dummy_unstable"}, {}, {})
    /\ unstable_features' \in SUBSET FeatureNames
    /\ manifest' \in PackageManifests(pkg_lints', BOOLEAN)
    /\ ws' = NoWorkspace
    /\ LET eff == check_im_a_teapot(manifest', pkg_lints', edition, unstable_features')
       IN  /\ shell' = shell \o eff.printed
           /\ error_count' = error_count + eff.errors
           /\ pc' = IF eff.status = "panic" THEN "panic" ELSE "done"
           /\ ret' = IF eff.status = "panic" THEN None ELSE Some(<< "Ok" >>)
    /\ UNCHANGED << lookup, tests, lint, edition, cli_unstable, result, util_result, iter, unknown_lints,
                    lint_level, emitted_source >>

UtilNext ==
    \/ util_analyze_cargo_lints_table
    \/ util_classify
    \/ util_output_unknown_lints
    \/ util_output_unknown_lints_report
    \/ util_analyze_return
    \/ util_check_im_a_teapot

UtilSpec == UtilInit /\ [][UtilNext]_vars

\* ------------- get_key_value and get_key_value_span (LookupSpec)

\* The documents the lookups are run on have the keys a and b in every
\* table. A position in the document is a number: the root table is 0, the
\* entry of the i-th key of the table at c is 3 * c + i. The entry at
\* position c has its key and its value on line c, the elements of an array
\* one after the other inside the value.
LookupKeys == << "a", "b" >>
ElementSpan(c, i) == Span(c, 10 * i, 10 * i + 5)
ValueSpan(c) == Span(c, 4, 90)
KeySpan(c) == Span(c, 0, 1)

\* The element values an array holds: a string a, a string b, an integer.
ElementValues == {"a", "b", "1"}
Element(c, i, v) ==
    IF v = "1" THEN [span |-> ElementSpan(c, i), kind |-> "Integer"]
    ELSE String(ElementSpan(c, i), v)

\* Every array of at most MaxLen elements at position c.
Arrays(c) ==
    {Array(ValueSpan(c), [i \in 1 .. Len(vs) |-> Element(c, i, vs[i])]) :
        vs \in UNION {[1 .. n -> ElementValues] : n \in 0 .. MaxLen}}

\* The values that are neither a table nor an array.
Scalars(c) == {String(ValueSpan(c), "x"), Boolean(ValueSpan(c), TRUE)}

\* A table from the optional items of its two keys.
TableOf(c, items) ==
    [k \in {LookupKeys[i] : i \in {j \in 1 .. 2 : is_some(items[j])}} |->
        LET i == IF k = "a" THEN 1 ELSE 2
        IN  Entry(KeySpan(3 * c + i), unwrap(items[i]))]

\* Every table at position c whose tables nest at most d deep: the key a
\* holds any item or is absent, the key b holds a scalar or is absent.
RECURSIVE LookupTables(_, _)
LookupTables(d, c) ==
    LET nested == IF d = 0 THEN {}
                  ELSE {Table(ValueSpan(3 * c + 1), t) : t \in LookupTables(d - 1, 3 * c + 1)}
        under_a == Scalars(3 * c + 1) \cup Arrays(3 * c + 1) \cup nested
        under_b == Scalars(3 * c + 2)
    IN  {TableOf(c, << ia, ib >>) :
            ia \in {None} \cup {Some(x) : x \in under_a},
            ib \in {None} \cup {Some(x) : x \in under_b}}

\* Every path of at most n segments.
LookupPaths(n) == UNION {[1 .. k -> {"a", "b"}] : k \in 0 .. n}

\* Before the calls: a document and a path, the arguments of the lookups.
LookupInit ==
    /\ lint = NoLint
    /\ pkg_lints = << >>
    /\ edition = 0
    /\ unstable_features = {}
    /\ cli_unstable = {}
    /\ result = None
    /\ util_result = None
    /\ manifest = NoManifest
    /\ ws = NoWorkspace
    /\ \E document_ \in LookupTables(MaxDepth, 0), path \in LookupPaths(MaxPath) :
          lookup = [NoLookup EXCEPT !.document = document_, !.path = path]
    /\ tests = NoTests
    /\ PassIdle

\* A call of lints/mod.rs get_key_value.
CallGetKeyValue ==
    /\ is_none(lookup.key_value)
    /\ lookup' = [lookup EXCEPT !.key_value = Some(get_key_value(lookup.document, lookup.path))]
    /\ UNCHANGED << tests, input_vars, pass_vars, result, util_result >>

\* A call of lints/mod.rs get_key_value_span.
CallGetKeyValueSpan ==
    /\ is_none(lookup.span)
    /\ lookup' = [lookup EXCEPT !.span = Some(get_key_value_span(lookup.document, lookup.path))]
    /\ UNCHANGED << tests, input_vars, pass_vars, result, util_result >>

\* A call of util/lints.rs get_key_value_span.
CallUtilGetKeyValueSpan ==
    /\ is_none(lookup.util_span)
    /\ lookup' = [lookup EXCEPT
                     !.util_span = Some(util_get_key_value_span(lookup.document, lookup.path))]
    /\ UNCHANGED << tests, input_vars, pass_vars, result, util_result >>

LookupNext ==
    \/ CallGetKeyValue
    \/ CallGetKeyValueSpan
    \/ CallUtilGetKeyValueSpan

LookupSpec == LookupInit /\ [][LookupNext]_vars

\* ---------------- analyze_cargo_lints_table of lints/mod.rs (AnalyzeSpec)

\* The names a table declares beside unknown_lints, its group and the gated
\* group: the dynamic group, the same name with a capital letter, and names
\* of no catalog, two of them catalog names with hyphens for underscores.
AnalyzeDeclarable ==
    {"Warnings", "warnings", "test-dummy-unstable", "this-lint-does-not-exist", "unknown-lints"}

\* The ManifestFor values a table comes with: the package manifest that
\* writes the table in [lints.cargo], the package manifest that inherits it
\* with lints.workspace = true, the workspace manifest that writes it in
\* [workspace.lints.cargo]; each with or without its document and with or
\* without its contents, two Options that ManifestFor reads one by one.
ManifestsFor(table) ==
    {m \in {[scope |-> sc, document |-> has_document, contents |-> has_contents,
             lints_cargo |-> IF inherit THEN {} ELSE DOMAIN table,
             lints_workspace |-> inherit,
             im_a_teapot |-> FALSE] :
                sc \in {"Package", "Workspace"}, inherit \in BOOLEAN,
                has_document \in BOOLEAN, has_contents \in BOOLEAN} :
        m.scope = "Workspace" => ~m.lints_workspace}

\* Before a call: nothing is declared and nothing was printed. The table, the
\* manifest and its enabled features are the arguments of the call. No entry
\* of the catalog has an edition_lint_opts or a Gated::Cli gate, so one
\* edition and one set of -Z flags are run.
AnalyzeInit ==
    /\ lint = NoLint
    /\ pkg_lints = << >>
    /\ edition = 0
    /\ unstable_features = {}
    /\ cli_unstable = {}
    /\ result = None
    /\ util_result = None
    /\ manifest = NoManifest
    /\ ws = NoWorkspace
    /\ lookup = NoLookup
    /\ tests = NoTests
    /\ PassIdle

\* lints/mod.rs analyze_cargo_lints_table is called: its locals are set up.
analyze_cargo_lints_table ==
    /\ call = "none"
    /\ pc = "idle"
    /\ call' = "analyze_cargo_lints_table"
    /\ pc' = "classify"
    /\ unknown_lints' = << >>
    /\ DeclareTable({"suspicious", "unknown_lints"}, {"test_dummy_unstable"}, AnalyzeDeclarable)
    /\ unstable_features' \in SUBSET FeatureNames
    /\ iter' = keys(pkg_lints')
    /\ manifest' \in ManifestsFor(pkg_lints')
    /\ UNCHANGED << lookup, tests, lint, edition, cli_unstable, ws, result, util_result, lint_level,
                    emitted_source, error_count, shell, ret >>

\* One turn of the loop over cargo_lints.keys(): classify lint_name and, for
\* a known name behind a Gated::Feature that is not enabled, run
\* report_feature_not_enabled.
analyze_classify ==
    /\ call = "analyze_cargo_lints_table"
    /\ pc = "classify"
    /\ iter # << >>
    /\ LET lint_name == Head(iter)
           by_lint == find(LINTS, lint_name)
           by_group == find(LINT_GROUPS, lint_name)
           by_dynamic == find(DYNAMIC_LINT_GROUPS, lint_name)
           known == is_some(by_lint) \/ is_some(by_group) \/ is_some(by_dynamic)
           feature_gate == IF is_some(by_lint) THEN unwrap(by_lint).feature_gate
                           ELSE IF is_some(by_group) THEN unwrap(by_group).feature_gate
                           ELSE None
           gated == IF is_some(feature_gate)
                    THEN IF unwrap(feature_gate)[1] = "Feature"
                         THEN ~is_enabled(unstable_features, unwrap(feature_gate)[2])
                         ELSE FALSE
                    ELSE FALSE
           eff == IF known /\ gated
                  THEN report_feature_not_enabled(lint_name, unwrap(feature_gate)[2], manifest)
                  ELSE Effect("Ok", << >>, 0)
       IN  /\ unknown_lints' = IF known THEN unknown_lints ELSE Append(unknown_lints, lint_name)
           /\ shell' = shell \o eff.printed
           /\ error_count' = error_count + eff.errors
           /\ iter' = Tail(iter)
    /\ UNCHANGED << lookup, tests, input_vars, result, util_result, call, pc, lint_level, emitted_source, ret >>

\* The loop is over: rules::output_unknown_lints runs on the batch and
\* analyze_cargo_lints_table returns Ok.
analyze_output_unknown_lints ==
    /\ call = "analyze_cargo_lints_table"
    /\ pc = "classify"
    /\ iter = << >>
    /\ LET eff == rules_output_unknown_lints(unknown_lints, manifest, pkg_lints, edition,
                                             unstable_features, cli_unstable)
       IN  /\ shell' = shell \o eff.printed
           /\ error_count' = error_count + eff.errors
    /\ pc' = "done"
    /\ ret' = Some(<< "Ok" >>)
    /\ UNCHANGED << lookup, tests, input_vars, result, util_result, call, iter, unknown_lints, lint_level,
                    emitted_source >>

AnalyzeNext ==
    \/ analyze_cargo_lints_table
    \/ analyze_classify
    \/ analyze_output_unknown_lints

AnalyzeSpec == AnalyzeInit /\ [][AnalyzeNext]_vars

\* ---- the passes on documents that miss a declared key (MissingSpanSpec)

\* The functions take the table and the documents as separate arguments:
\* nothing in their types ties a name of the table to a key of a document.
\* The package manifests that write any part of the table, or inherit.
WritingManifests(table, scopes) ==
    {m \in {[scope |-> sc, document |-> TRUE, contents |-> TRUE,
             lints_cargo |-> written,
             lints_workspace |-> inherit,
             im_a_teapot |-> FALSE] :
                sc \in scopes, inherit \in BOOLEAN, written \in SUBSET DOMAIN table} :
        m.lints_workspace => (m.scope = "Package" /\ m.lints_cargo = {})}

MissingSpanInit ==
    /\ lint = NoLint
    /\ pkg_lints = << >>
    /\ edition = 0
    /\ unstable_features = {}
    /\ cli_unstable = {}
    /\ result = None
    /\ util_result = None
    /\ manifest = NoManifest
    /\ ws = NoWorkspace
    /\ lookup = NoLookup
    /\ tests = NoTests
    /\ PassIdle

\* util/lints.rs analyze_cargo_lints_table is called with a table, a package
\* manifest that writes some of its names and a workspace document that
\* writes all of them or none.
util_analyze_any_documents ==
    /\ call = "none"
    /\ pc = "idle"
    /\ call' = "util::analyze_cargo_lints_table"
    /\ pc' = "classify"
    /\ error_count' = 0
    /\ unknown_lints' = << >>
    /\ DeclareTable({}, {"im_a_teapot", "test_dummy_unstable", "unknown_lints"},
                    {"this-lint-does-not-exist", "unknown-lints"})
    /\ unstable_features' \in SUBSET FeatureNames
    /\ iter' = keys(pkg_lints')
    /\ manifest' \in WritingManifests(pkg_lints', {"Package"})
    /\ ws' \in {[lints_cargo |-> {}], [lints_cargo |-> DOMAIN pkg_lints']}
    /\ UNCHANGED << lookup, tests, lint, edition, cli_unstable, result, util_result, lint_level,
                    emitted_source, shell, ret >>

\* lints/mod.rs analyze_cargo_lints_table is called with a table and a
\* manifest of either scope that writes some of its names.
analyze_any_document ==
    /\ call = "none"
    /\ pc = "idle"
    /\ call' = "analyze_cargo_lints_table"
    /\ pc' = "classify"
    /\ unknown_lints' = << >>
    /\ DeclareTable({}, {"test_dummy_unstable", "unknown_lints"},
                    {"this-lint-does-not-exist", "unknown-lints"})
    /\ unstable_features' \in SUBSET FeatureNames
    /\ iter' = keys(pkg_lints')
    /\ manifest' \in WritingManifests(pkg_lints', {"Package", "Workspace"})
    /\ UNCHANGED << lookup, tests, lint, edition, cli_unstable, ws, result, util_result, lint_level,
                    emitted_source, error_count, shell, ret >>

MissingSpanNext ==
    \/ util_analyze_any_documents
    \/ util_classify
    \/ util_output_unknown_lints
    \/ util_output_unknown_lints_report
    \/ util_analyze_return
    \/ analyze_any_document
    \/ analyze_classify
    \/ analyze_output_unknown_lints

MissingSpanSpec == MissingSpanInit /\ [][MissingSpanNext]_vars

\* --------- the unit tests ensure_sorted_lints, ensure_sorted_lint_groups
\* (SortedSpec)

UpperLetters ==
    << "A", "B", "C", "D", "E", "F", "G", "H", "I", "J", "K", "L", "M",
       "N", "O", "P", "Q", "R", "S", "T", "U", "V", "W", "X", "Y", "Z" >>
LowerLetters ==
    << "a", "b", "c", "d", "e", "f", "g", "h", "i", "j", "k", "l", "m",
       "n", "o", "p", "q", "r", "s", "t", "u", "v", "w", "x", "y", "z" >>
LetterIndex(letters, c) == {i \in 1 .. Len(letters) : letters[i] = c}

\* The byte of a character of a name (ASCII).
byte(c) ==
    IF c = "-" THEN 45
    ELSE IF c = "_" THEN 95
    ELSE IF LetterIndex(UpperLetters, c) # {}
    THEN 64 + (CHOOSE i \in LetterIndex(UpperLetters, c) : TRUE)
    ELSE 96 + (CHOOSE i \in LetterIndex(LowerLetters, c) : TRUE)

\* str::to_uppercase, on the text of a name
to_uppercase(cs) ==
    [i \in 1 .. Len(cs) |->
        IF LetterIndex(LowerLetters, cs[i]) # {}
        THEN UpperLetters[CHOOSE j \in LetterIndex(LowerLetters, cs[i]) : TRUE]
        ELSE cs[i]]

\* Ord for String: the order of the bytes, a proper prefix first.
string_le(a, b) ==
    LET differ == {i \in 1 .. Len(a) : IF i <= Len(b) THEN a[i] # b[i] ELSE TRUE}
    IN  IF differ = {} THEN TRUE
        ELSE LET i == CHOOSE i \in differ : \A j \in differ : i <= j
             IN  IF i > Len(b) THEN FALSE ELSE byte(a[i]) < byte(b[i])

\* Vec::sort: the stable sort, as an insertion of each element after the
\* last element that is not greater.
RECURSIVE insert_sorted(_, _)
insert_sorted(sorted, x) ==
    IF sorted = << >> THEN << x >>
    ELSE IF string_le(sorted[Len(sorted)], x) THEN Append(sorted, x)
    ELSE Append(insert_sorted(SubSeq(sorted, 1, Len(sorted) - 1), x), sorted[Len(sorted)])
RECURSIVE sort(_)
sort(v) ==
    IF v = << >> THEN << >>
    ELSE insert_sorted(sort(SubSeq(v, 1, Len(v) - 1)), v[Len(v)])

\* The catalog a test reads.
catalog_of(t) ==
    CASE t = "lints::ensure_sorted_lints" -> LINTS
      [] t = "lints::ensure_sorted_lint_groups" -> LINT_GROUPS
      [] t = "util::ensure_sorted_lints" -> util_LINTS
      [] t = "util::ensure_sorted_lint_groups" -> util_LINT_GROUPS

SortedInit ==
    /\ lint = NoLint
    /\ pkg_lints = << >>
    /\ edition = 0
    /\ unstable_features = {}
    /\ cli_unstable = {}
    /\ result = None
    /\ util_result = None
    /\ manifest = NoManifest
    /\ ws = NoWorkspace
    /\ lookup = NoLookup
    /\ tests = NoTests
    /\ PassIdle

\* let actual = CATALOG.iter().map(|l| l.name.to_uppercase()).collect()
collect_actual(t) ==
    /\ tests[t].pc = "start"
    /\ tests' = [tests EXCEPT ![t] =
                    [pc |-> "collected",
                     actual |-> [i \in 1 .. Len(catalog_of(t)) |->
                                    to_uppercase(Chars(catalog_of(t)[i].name))],
                     expected |-> << >>]]
    /\ UNCHANGED << lookup, input_vars, pass_vars, result, util_result >>

\* let mut expected = actual.clone(); expected.sort()
sort_expected(t) ==
    /\ tests[t].pc = "collected"
    /\ tests' = [tests EXCEPT ![t].pc = "sorted", ![t].expected = sort(tests[t].actual)]
    /\ UNCHANGED << lookup, input_vars, pass_vars, result, util_result >>

\* snapbox::assert_data_eq!(actual.to_debug(), expected.to_debug())
assert_data_eq(t) ==
    /\ tests[t].pc = "sorted"
    /\ tests' = [tests EXCEPT ![t].pc =
                    IF tests[t].actual = tests[t].expected THEN "passed" ELSE "failed"]
    /\ UNCHANGED << lookup, input_vars, pass_vars, result, util_result >>

\* The test harness runs the tests of a crate in parallel threads.
SortedNext ==
    \E t \in TestNames :
        \/ collect_actual(t)
        \/ sort_expected(t)
        \/ assert_data_eq(t)

SortedSpec == SortedInit /\ [][SortedNext]_vars

\* ---------------------------------------------- claims about Lint::level

\* What the two generations have returned so far.
Returned == {unwrap(r) : r \in {o \in {result, util_result} : is_some(o)}}

GateKind == IF is_some(lint.feature_gate) THEN unwrap(lint.feature_gate)[1] ELSE "None"
FeatureGateOff ==
    IF GateKind = "Feature" THEN unwrap(lint.feature_gate)[2] \notin unstable_features ELSE FALSE
CliGateOn ==
    IF GateKind = "Cli" THEN unwrap(lint.feature_gate)[2] \in cli_unstable ELSE FALSE
GatedOut == FeatureGateOff \/ CliGateOn

LintDeclared == lint.name \in DOMAIN pkg_lints
GroupDeclared == lint.primary_group.name \in DOMAIN pkg_lints
DeclaredAt(name, lvl) ==
    IF name \in DOMAIN pkg_lints THEN pkg_lints[name].level = lvl ELSE FALSE
LintForbid == DeclaredAt(lint.name, "forbid")
GroupForbid == DeclaredAt(lint.primary_group.name, "forbid")
OverrideApplies ==
    IF is_some(lint.edition_lint_opts)
    THEN unwrap(lint.edition_lint_opts)[1] <= edition
    ELSE FALSE
OverrideLevel == unwrap(lint.edition_lint_opts)[2]
OverrideForbid == IF OverrideApplies THEN OverrideLevel = "Forbid" ELSE FALSE
DefaultForbid == lint.primary_group.default_level = "Forbid"
AnyForbidSource == LintForbid \/ GroupForbid \/ OverrideForbid \/ DefaultForbid

\* The reason the Forbid tier gives: the first Forbid source in the order
\* lint, group, edition override, group default.
ForbidReason ==
    IF LintForbid THEN Package
    ELSE IF GroupForbid THEN Package
    ELSE IF OverrideForbid THEN Edition(edition)
    ELSE Default

\* The LintLevel a declared level names.
LevelNamed == [allow |-> "Allow", warn |-> "Warn", deny |-> "Deny", forbid |-> "Forbid"]

\* The declared entry that wins the explicit-settings tier.
Winner ==
    IF LintDeclared /\ GroupDeclared
    THEN IF pkg_lints[lint.name].priority >= pkg_lints[lint.primary_group.name].priority
         THEN pkg_lints[lint.name]
         ELSE pkg_lints[lint.primary_group.name]
    ELSE IF LintDeclared THEN pkg_lints[lint.name]
    ELSE pkg_lints[lint.primary_group.name]

\* What the tiers after the gate give: Forbid, explicit, edition, default.
ExpectedByTiers ==
    IF AnyForbidSource THEN << "Forbid", ForbidReason >>
    ELSE IF LintDeclared \/ GroupDeclared THEN << LevelNamed[Winner.level], Package >>
    ELSE IF OverrideApplies THEN << OverrideLevel, Edition(edition) >>
    ELSE << lint.primary_group.default_level, Default >>

\* C1: a lint behind a manifest feature that is not enabled resolves to
\* (Allow, Default) in both generations, whatever is declared for it or its
\* group (Forbid included), whatever the edition, override and group default.
C1_FeatureGateShortCircuit ==
    FeatureGateOff => \A r \in Returned : r = << "Allow", Default >>

C1_Witness ==
    /\ FeatureGateOff
    /\ LintForbid
    /\ result = Some(<< "Allow", Default >>)
    /\ util_result = Some(<< "Allow", Default >>)

\* C2: for a lint that is not gated out, a Forbid source makes the result
\* (Forbid, R) with R given by the first Forbid source in the order lint
\* (Package), group (Package), applicable edition override (Edition(edition)),
\* group default (Default), whatever the priorities and other declared levels.
C2_ForbidEscalation ==
    (~GatedOut /\ AnyForbidSource) =>
        \A r \in Returned : r = << "Forbid", ForbidReason >>

C2_Witness ==
    /\ ~GatedOut
    /\ DeclaredAt(lint.name, "allow")
    /\ GroupForbid
    /\ pkg_lints[lint.name].priority > pkg_lints[lint.primary_group.name].priority
    /\ result = Some(<< "Forbid", Package >>)
    /\ util_result = Some(<< "Forbid", Package >>)

\* C3: for a lint that is not gated out the result level is Forbid exactly
\* when the lint's declared level, its group's declared level, the applicable
\* edition override or the group default is Forbid; for a lint that is gated
\* out the result level is never Forbid.
C3_ForbidIffSource ==
    \A r \in Returned :
        IF GatedOut THEN r[1] # "Forbid" ELSE (r[1] = "Forbid") <=> AnyForbidSource

C3_Witness ==
    /\ ~GatedOut
    /\ LintForbid
    /\ ~GroupForbid /\ ~OverrideForbid /\ ~DefaultForbid
    /\ is_some(result) /\ unwrap(result)[1] = "Forbid"
    /\ is_some(util_result) /\ unwrap(util_result)[1] = "Forbid"

\* C4: for a lint that is not gated out and has no Forbid source, a declared
\* lint and/or group gives (level of the winner, Package): the lint when only
\* it is declared or when its priority is >= the group's, the group otherwise;
\* a non-Forbid edition override and the group default are ignored.
C4_ExplicitSettings ==
    (~GatedOut /\ ~AnyForbidSource /\ (LintDeclared \/ GroupDeclared)) =>
        \A r \in Returned : r = << LevelNamed[Winner.level], Package >>

C4_Witness ==
    /\ ~GatedOut /\ ~AnyForbidSource
    /\ LintDeclared /\ GroupDeclared
    /\ pkg_lints[lint.name].priority = pkg_lints[lint.primary_group.name].priority
    /\ pkg_lints[lint.name].level = "allow"
    /\ pkg_lints[lint.primary_group.name].level = "deny"
    /\ OverrideApplies
    /\ result = Some(<< "Allow", Package >>)
    /\ util_result = Some(<< "Allow", Package >>)

\* C5: for a lint that is not gated out, with neither the lint nor its group
\* declared and no Forbid source, the result is (override level,
\* Edition(edition)) if the lint has an edition override whose threshold is
\* <= the edition, and (group default, Default) otherwise.
C5_UndeclaredDefaults ==
    (~GatedOut /\ ~AnyForbidSource /\ ~LintDeclared /\ ~GroupDeclared) =>
        \A r \in Returned :
            r = IF OverrideApplies
                THEN << OverrideLevel, Edition(edition) >>
                ELSE << lint.primary_group.default_level, Default >>

C5_Witness ==
    /\ ~GatedOut /\ ~LintDeclared /\ ~GroupDeclared
    /\ is_some(lint.edition_lint_opts)
    /\ unwrap(lint.edition_lint_opts)[1] = edition
    /\ OverrideLevel = "Deny"
    /\ lint.primary_group.default_level = "Warn"
    /\ result = Some(<< "Deny", Edition(edition) >>)
    /\ util_result = Some(<< "Deny", Edition(edition) >>)

Pushed == SubSeq(shell', Len(shell) + 1, Len(shell'))

\* The step is the turn of the loop of analyze_cargo_lints_table on a name
\* of the catalog whose gate fails by the gate rule of Lint::level.
GateFailsFor(lint_name) ==
    \E c \in {LINTS[i] : i \in 1 .. Len(LINTS)} \cup {LINT_GROUPS[i] : i \in 1 .. Len(LINT_GROUPS)} :
        /\ c.name = lint_name
        /\ gate_inactive(c.feature_gate, unstable_features, cli_unstable)
GateViolationTurn ==
    /\ call = "analyze_cargo_lints_table"
    /\ pc = "classify"
    /\ iter # << >>
    /\ GateFailsFor(Head(iter))

\* The step printed exactly one error-severity `use of unstable lint` report
\* for lint_name, with the cargo-features help, and counted one error.
OneGateError(lint_name) ==
    /\ Len(Pushed) = 1
    /\ Pushed[1].force = TRUE
    /\ Len(Pushed[1].report) = 1
    /\ LET group == Pushed[1].report[1]
           last == group.elements[Len(group.elements)]
       IN  /\ group.level = "ERROR"
           /\ group.title = << "use of unstable lint", lint_name >>
           /\ last.element = "Message"
           /\ last.level = "HELP"
           /\ last.text[1] = "consider adding cargo-features"
    /\ error_count' = error_count + 1

\* The key of the name is written at the scope of the manifest.
KeyAtOwnScope(lint_name) == lint_name \in manifest.lints_cargo

\* The statement of C7 as written: every turn on a name whose gate fails
\* prints one error report and counts one error.
C7_Original ==
    [][GateViolationTurn => OneGateError(Head(iter))]_vars

\* C7 (amended): a turn of the loop of analyze_cargo_lints_table on a known
\* lint or group behind a Gated::Feature that is not enabled prints exactly
\* one error-severity `use of unstable lint` report with the cargo-features
\* help and adds one to the error count, whatever level the name is declared
\* at, when the key is written at the scope of the manifest or the manifest
\* has no document and contents; when the manifest has them and the key is
\* not written at its scope, the turn prints nothing and counts nothing.
C7_GateViolationsAreErrors ==
    [][GateViolationTurn =>
          IF KeyAtOwnScope(Head(iter)) \/ ~(manifest.document /\ manifest.contents)
          THEN OneGateError(Head(iter))
          ELSE shell' = shell /\ error_count' = error_count]_vars

C7_Witness ==
    /\ call = "analyze_cargo_lints_table"
    /\ pc = "done"
    /\ DeclaredAt("test_dummy_unstable", "allow")
    /\ "test_dummy_unstable" \notin unstable_features
    /\ manifest.scope = "Workspace"
    /\ manifest.document
    /\ manifest.contents
    /\ Len(shell) = 1
    /\ shell[1].report[1].level = "ERROR"
    /\ shell[1].report[1].title = << "use of unstable lint", "test_dummy_unstable" >>
    /\ shell[1].report[1].elements[1].annotation.span
          = workspace_document(manifest)["workspace"].item.table["lints"].item.table["cargo"]
                .item.table["test_dummy_unstable"].key
    /\ error_count = 1

\* ------------------------------- claims about the passes of util/lints.rs

InAnalyze == call = "util::analyze_cargo_lints_table"
InTeapot == call = "util::check_im_a_teapot"

\* The level unknown_lints resolves to, from the declared settings alone:
\* the lint has no gate and no edition override, its group suspicious
\* defaults to Warn.
DeclaredLevel(name) == LevelNamed[pkg_lints[name].level]
UnknownLintsResolved ==
    LET l == "unknown_lints" \in DOMAIN pkg_lints
        g == "suspicious" \in DOMAIN pkg_lints
    IN  IF DeclaredAt("unknown_lints", "forbid") \/ DeclaredAt("suspicious", "forbid") THEN "Forbid"
        ELSE IF l /\ g
        THEN IF pkg_lints["unknown_lints"].priority >= pkg_lints["suspicious"].priority
             THEN DeclaredLevel("unknown_lints")
             ELSE DeclaredLevel("suspicious")
        ELSE IF l THEN DeclaredLevel("unknown_lints")
        ELSE IF g THEN DeclaredLevel("suspicious")
        ELSE "Warn"

\* The names of the catalog of util/lints.rs and the declared names outside it,
\* in the order of the table.
UtilCatalogNames ==
    {"im_a_teapot", "unknown_lints", "correctness", "nursery", "pedantic", "restriction",
     "style", "suspicious", "test_dummy_unstable"}
UnknownBatch == SelectSeq(NameOrder, LAMBDA n : n \in DOMAIN pkg_lints /\ n \notin UtilCatalogNames)

IsUnknownReport(p) == p.report[1].title[1] = "unknown lint"
IsUnstableReport(p) == p.report[1].title[1] = "use of unstable lint"
UnknownReports == SelectSeq(shell, IsUnknownReport)
UnstableReports == SelectSeq(shell, IsUnstableReport)

\* The span of the key of a declared name: in [lints.cargo] of the package
\* manifest when it is written there, in [workspace.lints.cargo] otherwise.
DeclaredKeySpan(name) ==
    IF name \in manifest.lints_cargo
    THEN package_document(manifest)["lints"].item.table["cargo"].item.table[name].key
    ELSE workspace_document(ws)["workspace"].item.table["lints"].item.table["cargo"].item.table[name].key

\* C8: when unknown_lints resolves to Allow (by its own declared level, the
\* declared level of suspicious, or the priorities between them),
\* output_unknown_lints returns without a report and without a change of the
\* error count, however many unknown names the batch has: the shell holds
\* only the gate reports of the walk and the count is their number.
C8_AllowSuppressesUnknown ==
    (InAnalyze /\ UnknownLintsResolved = "Allow") =>
        /\ pc \notin {"report", "panic"}
        /\ UnknownReports = << >>
        /\ error_count = Len(UnstableReports)
        /\ pc = "done" => ret = IF error_count > 0 THEN Some(<< "Err", error_count >>)
                                ELSE Some(<< "Ok" >>)

C8_Witness ==
    /\ InAnalyze
    /\ pc = "done"
    /\ DeclaredAt("unknown_lints", "allow")
    /\ DeclaredAt("suspicious", "deny")
    /\ pkg_lints["unknown_lints"].priority > pkg_lints["suspicious"].priority
    /\ Len(unknown_lints) = 1
    /\ shell = << >>
    /\ error_count = 0

\* C9: when unknown_lints resolves to Warn, Deny or Forbid, a finished pass
\* has printed exactly one unknown-lint report per unknown name, in the order
\* of the batch, each with a primary annotation at the span of the declared
\* key; with nothing declared but this-lint-does-not-exist the one report has
\* warning severity and the error count stays 0.
C9_OneReportPerUnknown ==
    (InAnalyze /\ pc = "done" /\ UnknownLintsResolved # "Allow") =>
        /\ unknown_lints = UnknownBatch
        /\ Len(UnknownReports) = Len(UnknownBatch)
        /\ \A i \in 1 .. Len(UnknownBatch) :
              LET primary == UnknownReports[i].report[1]
              IN  /\ primary.title = << "unknown lint", UnknownBatch[i] >>
                  /\ primary.elements[1].element = "Snippet"
                  /\ primary.elements[1].annotation.kind = "Primary"
                  /\ primary.elements[1].annotation.span = DeclaredKeySpan(UnknownBatch[i])
                  /\ primary.elements[1].path = IF UnknownBatch[i] \in manifest.lints_cargo
                                                THEN "manifest_path" ELSE "ws_path"
        /\ DOMAIN pkg_lints = {"this-lint-does-not-exist"} =>
              /\ Len(shell) = 1
              /\ shell[1].report[1].level = "WARNING"
              /\ error_count = 0
              /\ ret = Some(<< "Ok" >>)

C9_Witness ==
    /\ InAnalyze
    /\ pc = "done"
    /\ DeclaredAt("unknown_lints", "deny")
    /\ UnknownBatch = << "this-lint-does-not-exist", "unknown-lints" >>
    /\ Len(shell) = 2
    /\ shell[1].report[1].title = << "unknown lint", "this-lint-does-not-exist" >>
    /\ shell[2].report[1].title = << "unknown lint", "unknown-lints" >>

\* The severity a resolved level is shown with.
SeverityOf == [Warn |-> "WARNING", Deny |-> "ERROR", Forbid |-> "ERROR"]

\* A step of output_unknown_lints or check_im_a_teapot pushes at most one
\* diagnostic; it has the severity of the resolved level lvl, force = true,
\* and the step adds 1 to the error count iff it pushed at Deny or Forbid.
DiagnosticAgrees(lvl) ==
    /\ Len(Pushed) <= 1
    /\ lvl = "Allow" => Pushed = << >>
    /\ \A i \in 1 .. Len(Pushed) :
          /\ lvl \in {"Warn", "Deny", "Forbid"}
          /\ Pushed[i].report[1].level = SeverityOf[lvl]
          /\ Pushed[i].force = TRUE
    /\ error_count' = error_count + (IF Pushed # << >> /\ lvl \in {"Deny", "Forbid"} THEN 1 ELSE 0)

\* C10: every diagnostic of output_unknown_lints and of check_im_a_teapot has
\* warning severity at Warn and error severity at Deny or Forbid, is pushed
\* with force = true, and raises the error count by exactly one iff the
\* resolved level is Deny or Forbid; at Allow nothing is pushed.
C10_SeverityForceCount ==
    [][ /\ (call = "none" /\ InTeapot') =>
            DiagnosticAgrees(util_level(IM_A_TEAPOT, pkg_lints', edition', unstable_features')[1])
        /\ (InAnalyze /\ (pc = "report" \/ (pc = "classify" /\ iter = << >>))) =>
            DiagnosticAgrees(util_level(UNKNOWN_LINTS, pkg_lints, edition, unstable_features)[1])
      ]_vars

C10_Witness ==
    /\ InTeapot
    /\ pc = "done"
    /\ "im_a_teapot" \notin DOMAIN pkg_lints
    /\ DeclaredAt("test_dummy_unstable", "deny")
    /\ Len(shell) = 1
    /\ shell[1].report[1].level = "ERROR"
    /\ shell[1].force = TRUE
    /\ error_count = 1


\* The name with every hyphen turned into an underscore.
Normalized(name) ==
    LET cs == Chars(name)
    IN  [i \in 1 .. Len(cs) |-> IF cs[i] = "-" THEN "_" ELSE cs[i]]

\* The lints and the groups of the catalog of util/lints.rs.
UtilLintNames == {"im_a_teapot", "unknown_lints"}
UtilGroupNames == UtilCatalogNames \ UtilLintNames

\* The help messages of the primary group of a printed report.
HelpOf(p) ==
    SelectSeq(p.report[1].elements,
              LAMBDA e : IF e.element = "Message" THEN e.level = "HELP" ELSE FALSE)

\* The help an unknown name is owed: the lint its normalized text names, or
\* failing that the group it names, or none.
ExpectedHelp(name) ==
    LET text == Normalized(name)
    IN  IF \E l \in UtilLintNames : Chars(l) = text
        THEN << << "there is a", "lint", "with a similar name:",
                   CHOOSE l \in UtilLintNames : Chars(l) = text >> >>
        ELSE IF \E g \in UtilGroupNames : Chars(g) = text
        THEN << << "there is a", "group", "with a similar name:",
                   CHOOSE g \in UtilGroupNames : Chars(g) = text >> >>
        ELSE << >>

\* C11: every unknown-lint report of output_unknown_lints carries a help
\* exactly when the name with each '-' replaced by '_' equals a lint name of
\* the catalog (the help says lint) or, failing that, a group name (the help
\* says group); a name with no such match has no help.
C11_DidYouMean ==
    InAnalyze =>
        \A i \in 1 .. Len(UnknownReports) :
            LET p == UnknownReports[i]
                helps == HelpOf(p)
            IN  [j \in 1 .. Len(helps) |-> helps[j].text] = ExpectedHelp(p.report[1].title[2])

C11_Witness ==
    /\ InAnalyze
    /\ pc = "done"
    /\ Len(UnknownReports) = 3
    /\ HelpOf(UnknownReports[1])
          = << Message("HELP", << "there is a", "group", "with a similar name:",
                                  "test_dummy_unstable" >>) >>
    /\ HelpOf(UnknownReports[2]) = << >>
    /\ HelpOf(UnknownReports[3])
          = << Message("HELP", << "there is a", "lint", "with a similar name:",
                                  "unknown_lints" >>) >>


\* A declared name without hyphens that misspells a lint of the catalog:
\* unknwon_lints for unknown_lints (two letters swapped).
Misspelled == "unknwon_lints"
MisspelledReports ==
    SelectSeq(UnknownReports, LAMBDA p : p.report[1].title[2] = Misspelled)

\* The statement of C12 as written: the report of the misspelled name has a
\* help that names the catalog lint as a lint suggestion.
C12_Original ==
    InAnalyze =>
        \A i \in 1 .. Len(MisspelledReports) :
            HelpOf(MisspelledReports[i])
              = << Message("HELP", << "there is a", "lint", "with a similar name:",
                                      "unknown_lints" >>) >>

\* C12 (amended): an unknown name without hyphens that is not itself a name
\* of the catalog is reported without any help, however close it is to a
\* catalog lint: the one comparison made is equality after '-' is replaced
\* by '_'.
C12_NoCloseMatch ==
    InAnalyze =>
        \A i \in 1 .. Len(MisspelledReports) : HelpOf(MisspelledReports[i]) = << >>

C12_Witness ==
    /\ InAnalyze
    /\ pc = "done"
    /\ DOMAIN pkg_lints = {Misspelled}
    /\ Len(shell) = 1
    /\ shell[1].report[1].title = << "unknown lint", Misspelled >>
    /\ shell[1].report[1].level = "WARNING"
    /\ HelpOf(shell[1]) = << >>


\* The NOTE messages of the primary group of a printed report.
NotesOf(p) ==
    SelectSeq(p.report[1].elements, LAMBDA e : e.element = "Message" /\ e.level = "NOTE")

\* The reason unknown_lints comes with, from the declared settings alone: the
\* table when it declares the lint or its group, the default otherwise (the
\* lint has no edition override).
UnknownLintsReasonText ==
    IF "unknown_lints" \in DOMAIN pkg_lints \/ "suspicious" \in DOMAIN pkg_lints
    THEN << "in [lints]" >>
    ELSE << "by default" >>
UnknownLintsLevelText ==
    [Warn |-> "warn", Deny |-> "deny", Forbid |-> "forbid"][UnknownLintsResolved]

\* C13: among the unknown-lint reports of one call of output_unknown_lints,
\* the first carries exactly one note, cargo::unknown_lints is set to <level>
\* <reason>, with the resolved level and its reason (by default or in
\* [lints]; the lint has no edition override), and no later report of the
\* batch carries a note.
C13_FirstReportExplainsLevel ==
    InAnalyze =>
        \A i \in 1 .. Len(UnknownReports) :
            NotesOf(UnknownReports[i]) =
                IF i = 1
                THEN << Message("NOTE", << "cargo::", "unknown_lints", "is set to",
                                          UnknownLintsLevelText, UnknownLintsReasonText >>) >>
                ELSE << >>

C13_Witness ==
    /\ InAnalyze
    /\ pc = "done"
    /\ Len(UnknownReports) = 2
    /\ DeclaredAt("suspicious", "deny")
    /\ Len(NotesOf(UnknownReports[1])) = 1
    /\ NotesOf(UnknownReports[1])[1].text =
           << "cargo::", "unknown_lints", "is set to", "deny", << "in [lints]" >> >>
    /\ NotesOf(UnknownReports[2]) = << >>


\* Where a name is written in each manifest: the span of its key in
\* [lints.cargo] of the package manifest and in [workspace.lints.cargo] of
\* the workspace manifest.
PackageKeySpan(name) ==
    package_document(manifest)["lints"].item.table["cargo"].item.table[name].key
WorkspaceKeySpan(name) ==
    workspace_document(ws)["workspace"].item.table["lints"].item.table["cargo"].item.table[name].key

\* The anchor of a report: text, path and span of the snippet of its primary group.
AnchorOf(p) ==
    LET s == p.report[1].elements[1]
    IN  << s.source, s.path, s.annotation.span >>

\* C14: the primary snippet of the report of an unknown name is anchored in
\* the package manifest (its text, its path, the span of the key
\* lints.cargo.<name>) whenever the key is written there, also when the
\* workspace manifest declares the same name, and otherwise in the workspace
\* manifest (its text, its path, the span of workspace.lints.cargo.<name>).
C14_PackageScopeFirst ==
    InAnalyze =>
        \A i \in 1 .. Len(UnknownReports) :
            LET p == UnknownReports[i]
                name == p.report[1].title[2]
            IN  /\ p.report[1].elements[1].element = "Snippet"
                /\ p.report[1].elements[1].annotation.kind = "Primary"
                /\ AnchorOf(p) =
                      IF name \in manifest.lints_cargo
                      THEN << "manifest.contents", "manifest_path", PackageKeySpan(name) >>
                      ELSE << "ws_contents", "ws_path", WorkspaceKeySpan(name) >>

\* An unknown name declared only in the lint table of the workspace is
\* reported at the workspace manifest.
C14_Witness ==
    /\ InAnalyze
    /\ pc = "done"
    /\ manifest.lints_workspace
    /\ manifest.lints_cargo = {}
    /\ ws.lints_cargo = {"this-lint-does-not-exist"}
    /\ Len(UnknownReports) = 1
    /\ AnchorOf(UnknownReports[1]) =
           << "ws_contents", "ws_path", Span(30 + OrderOf("this-lint-does-not-exist"), 0, 30) >>


\* The declaration lints.workspace = true of the package manifest, when written.
InheritDeclaration == package_document(manifest)["lints"].item.table["workspace"]

\* C15: every unknown-lint report starts with the primary group (the
\* unknown lint title and a Primary snippet); it has a second group if and
\* only if the package manifest has the key lints.workspace, and that group
\* is the note cargo::<name> was inherited with one Context snippet of the
\* package manifest covering the declaration from the start of the key to
\* the end of the value. This holds for every report of the batch.
C15_InheritedOnEveryReport ==
    InAnalyze =>
        \A i \in 1 .. Len(UnknownReports) :
            LET report == UnknownReports[i].report
                name == report[1].title[2]
            IN  /\ report[1].title[1] = "unknown lint"
                /\ report[1].level \in {"WARNING", "ERROR"}
                /\ report[1].elements[1].annotation.kind = "Primary"
                /\ Len(report) = IF manifest.lints_workspace THEN 2 ELSE 1
                /\ manifest.lints_workspace =>
                      report[2] =
                          Group("NOTE", << "cargo::", name, "was inherited" >>,
                                << Snippet("manifest.contents", "manifest_path",
                                           Annotation("Context",
                                                      << InheritDeclaration.key[1],
                                                         InheritDeclaration.item.span[2] >>,
                                                      None)) >>)

\* Two unknown names inherited from the workspace: both reports end with the
\* inherited group, which spans lints.workspace = true (bytes 700 to 716).
C15_Witness ==
    /\ InAnalyze
    /\ pc = "done"
    /\ manifest.lints_workspace
    /\ Len(UnknownReports) = 2
    /\ \A i \in 1 .. 2 :
          /\ Len(UnknownReports[i].report) = 2
          /\ UnknownReports[i].report[2].level = "NOTE"
          /\ UnknownReports[i].report[2].elements[1].annotation.span = << 700, 716 >>


\* The declared names of the catalog of util/lints.rs whose feature gate is
\* not enabled, in the order of the table.
UtilGateViolations ==
    SelectSeq(NameOrder, LAMBDA n : /\ n \in DOMAIN pkg_lints
                                    /\ n \in {"im_a_teapot", "test_dummy_unstable"}
                                    /\ "test_dummy_unstable" \notin unstable_features)

\* The errors of a whole pass, from the declared settings alone: one per gate
\* violation and, when unknown_lints resolves to Deny or Forbid, one per
\* unknown name.
ExpectedErrors ==
    Len(UtilGateViolations)
      + (IF UnknownLintsResolved \in {"Deny", "Forbid"} THEN Len(UnknownBatch) ELSE 0)

\* C18: when analyze_cargo_lints_table of util/lints.rs has returned, it
\* returned the error with the count if and only if the counter is not zero
\* and Ok otherwise; the counter is the number of errors of the whole pass,
\* and the shell holds every diagnostic of the pass: first one gate report
\* per gate violation, then (unless unknown_lints is allowed) one unknown-lint
\* report per unknown name, each in the order of the table.
C18_AggregateFailure ==
    (InAnalyze /\ pc = "done") =>
        /\ ret = IF error_count > 0 THEN Some(<< "Err", error_count >>) ELSE Some(<< "Ok" >>)
        /\ error_count = ExpectedErrors
        /\ Len(shell) = Len(UnstableReports) + Len(UnknownReports)
        /\ [i \in 1 .. Len(UnstableReports) |-> UnstableReports[i].report[1].title[2]]
              = UtilGateViolations
        /\ [i \in 1 .. Len(UnknownReports) |-> UnknownReports[i].report[1].title[2]]
              = IF UnknownLintsResolved = "Allow" THEN << >> ELSE UnknownBatch
        /\ \A i \in 1 .. Len(shell) :
              IsUnstableReport(shell[i]) <=> i <= Len(UtilGateViolations)

\* A gate violation on the first name does not stop the pass: the unknown
\* names after it are reported and the error carries all three errors.
C18_Witness ==
    /\ InAnalyze
    /\ pc = "done"
    /\ UtilGateViolations = << "im_a_teapot" >>
    /\ DeclaredAt("unknown_lints", "deny")
    /\ UnknownBatch = << "this-lint-does-not-exist" >>
    /\ Len(shell) = 2
    /\ error_count = 2
    /\ ret = Some(<< "Err", 2 >>)


\* ------------- claims about report_feature_not_enabled of lints/mod.rs

\* The manifest has a document and contents, and the key of the name is not
\* written at its scope (the package inherits the table from the workspace).
DeclaredAtOtherScope(lint_name) ==
    /\ manifest.document
    /\ manifest.contents
    /\ ~KeyAtOwnScope(lint_name)

\* C19: when the manifest has a document and contents and the key of a
\* gated name cannot be located at the scope of the manifest,
\* report_feature_not_enabled returns Ok with no report and no counted
\* error, and the turn of the loop that called it leaves the shell and the
\* error count as they were and goes on with the next name.
C19_GracefulFallback ==
    [][(GateViolationTurn /\ DeclaredAtOtherScope(Head(iter))) =>
          /\ report_feature_not_enabled(Head(iter), "test_dummy_unstable", manifest)
                = Effect("Ok", << >>, 0)
          /\ shell' = shell
          /\ error_count' = error_count
          /\ pc' = "classify"
          /\ iter' = Tail(iter)]_vars

\* A package that inherits test_dummy_unstable without the feature: the pass
\* ends with nothing printed and nothing counted.
C19_Witness ==
    /\ call = "analyze_cargo_lints_table"
    /\ pc = "done"
    /\ DOMAIN pkg_lints = {"test_dummy_unstable"}
    /\ "test_dummy_unstable" \notin unstable_features
    /\ manifest.scope = "Package"
    /\ manifest.lints_workspace
    /\ manifest.document
    /\ manifest.contents
    /\ shell = << >>
    /\ error_count = 0
    /\ ret = Some(<< "Ok" >>)


\* ------------------------------------- claims about the span lookups

\* Where the segments of a path lead, segment by segment from segment i: to
\* the entry of the final segment ("found"), to a segment that is not in the
\* table reached so far ("missing"), to an array under a segment that is not
\* the final one ("array", with the entry and the number of the segment), or
\* to a value that is neither a table nor an array under such a segment.
RECURSIVE Walk(_, _, _)
Walk(table, path, i) ==
    IF path[i] \notin DOMAIN table THEN << "missing" >>
    ELSE IF i = Len(path) THEN << "found", table[path[i]] >>
    ELSE IF table[path[i]].item.kind = "Table" THEN Walk(table[path[i]].item.table, path, i + 1)
    ELSE IF table[path[i]].item.kind = "Array" THEN << "array", table[path[i]], i >>
    ELSE << "scalar" >>
Walked ==
    IF lookup.path = << >> THEN << "empty" >> ELSE Walk(lookup.document, lookup.path, 1)

\* The three lookups that have returned gave this key and this value, each
\* in its own form, or all gave None.
AllReturned == is_some(lookup.key_value) /\ is_some(lookup.span) /\ is_some(lookup.util_span)
ReturnedEntry(key, value) ==
    /\ is_some(lookup.key_value) => unwrap(lookup.key_value) = Some(<< key, value >>)
    /\ is_some(lookup.span) => unwrap(lookup.span) = Some([key |-> key, value |-> value.span])
    /\ is_some(lookup.util_span) =>
          unwrap(lookup.util_span) = Some([key |-> key, value |-> value.span])
ReturnedNone ==
    /\ is_some(lookup.key_value) => unwrap(lookup.key_value) = None
    /\ is_some(lookup.span) => unwrap(lookup.span) = None
    /\ is_some(lookup.util_span) => unwrap(lookup.util_span) = None

\* C16: on a path that leads through tables only, get_key_value and both
\* get_key_value_span return the key (its span) and the value (its span) of
\* the entry of the final segment when every segment is in the table reached
\* so far, and None when one of them is not; on the empty path they return
\* None.
C16_NestedTables ==
    /\ Walked[1] = "found" => ReturnedEntry(Walked[2].key, Walked[2].item)
    /\ Walked[1] = "missing" => ReturnedNone
    /\ Walked[1] = "empty" => ReturnedNone

\* The entry of b in the table under a, found by the path a, b.
C16_Witness ==
    /\ AllReturned
    /\ lookup.path = << "a", "b" >>
    /\ "a" \in DOMAIN lookup.document
    /\ lookup.document["a"].item.kind = "Table"
    /\ "b" \in DOMAIN lookup.document["a"].item.table
    /\ unwrap(lookup.span) = Some([key |-> KeySpan(5), value |-> ValueSpan(5)])
    /\ unwrap(lookup.util_span) = unwrap(lookup.span)
    /\ unwrap(unwrap(lookup.key_value))[2].kind \in {"String", "Boolean"}

\* The elements of an array that are strings equal to a segment.
Matches(array, next) ==
    {j \in 1 .. Len(array) : IF array[j].kind = "String" THEN array[j].string = next ELSE FALSE}

\* C17: when a segment that is not the final one leads to an array, the
\* lookups take the next segment and return the first element of the array
\* that is a string equal to it, with the key of the array as the key, and
\* None when no element is a string equal to it; an element that is not a
\* string is never returned.
C17_ThroughArray ==
    Walked[1] = "array" =>
        LET key == Walked[2].key
            array == Walked[2].item.array
            next == lookup.path[Walked[3] + 1]
        IN  IF Matches(array, next) = {} THEN ReturnedNone
            ELSE \E j \in Matches(array, next) :
                    /\ \A k \in Matches(array, next) : j <= k
                    /\ array[j].kind = "String"
                    /\ ReturnedEntry(key, array[j])

\* An array of two strings b under a, and the path a, b: the first of the
\* two elements is returned with the key of a.
C17_Witness ==
    /\ AllReturned
    /\ lookup.path = << "a", "b" >>
    /\ "a" \in DOMAIN lookup.document
    /\ lookup.document["a"].item.kind = "Array"
    /\ Len(lookup.document["a"].item.array) = 2
    /\ \A j \in 1 .. 2 : lookup.document["a"].item.array[j] = String(ElementSpan(1, j), "b")
    /\ unwrap(lookup.span) = Some([key |-> KeySpan(1), value |-> ElementSpan(1, 1)])
    /\ unwrap(lookup.util_span) = unwrap(lookup.span)
    /\ unwrap(lookup.key_value) = Some(<< KeySpan(1), String(ElementSpan(1, 1), "b") >>)


\* ------------------------------------ claims about the missing span

\* The name is written neither in [lints.cargo] of the package document nor
\* in [workspace.lints.cargo] of the workspace document.
LocatedNowhere(name) == name \notin manifest.lints_cargo /\ name \notin ws.lints_cargo

\* A turn of util/lints.rs that needs the span of the name it visits: the
\* walk on a gated name whose feature is not enabled, or the loop of
\* output_unknown_lints on an unknown name.
UtilSpanTurn ==
    /\ InAnalyze
    /\ iter # << >>
    /\ \/ pc = "report"
       \/ /\ pc = "classify"
          /\ Head(iter) \in {"im_a_teapot", "test_dummy_unstable"}
          /\ "test_dummy_unstable" \notin unstable_features

\* The statement of C20 as written, for the passes of both files: a turn on
\* a name that is located nowhere panics and prints nothing.
C20_Original ==
    [][((UtilSpanTurn \/ GateViolationTurn) /\ LocatedNowhere(Head(iter))) =>
          /\ pc' = "panic"
          /\ shell' = shell]_vars

\* C20 (amended): in util/lints.rs, a turn of the walk on a gated name whose
\* feature is not enabled, or of the loop of output_unknown_lints, on a name
\* located neither in the package document nor in the workspace document
\* panics: nothing is printed for the name and the pass returns nothing. In
\* lints/mod.rs the turn on such a gated name prints nothing, counts nothing
\* and goes on to the next name.
C20_MissingSpan ==
    [][/\ (UtilSpanTurn /\ LocatedNowhere(Head(iter))) =>
             /\ pc' = "panic"
             /\ shell' = shell
             /\ ret' = None
       /\ (GateViolationTurn /\ manifest.document /\ manifest.contents
              /\ LocatedNowhere(Head(iter))) =>
             /\ pc' = "classify"
             /\ shell' = shell
             /\ error_count' = error_count
             /\ iter' = Tail(iter)]_vars

\* The loop of output_unknown_lints has reported this-lint-does-not-exist,
\* written in the package manifest, and panicked on unknown-lints, written
\* nowhere.
C20_Witness ==
    /\ InAnalyze
    /\ pc = "panic"
    /\ unknown_lints = << "this-lint-does-not-exist", "unknown-lints" >>
    /\ manifest.lints_cargo = {"this-lint-does-not-exist"}
    /\ ws.lints_cargo = {}
    /\ iter = << >>
    /\ Len(shell) = 1
    /\ shell[1].report[1].title = << "unknown lint", "this-lint-does-not-exist" >>
    /\ ret = None


\* ---------------------------------- claims about check_im_a_teapot

\* The step is a call of check_im_a_teapot.
TeapotCall == call = "none" /\ InTeapot'

\* C21: a call of check_im_a_teapot without the feature test_dummy_unstable
\* prints nothing, leaves the error count as it was and returns Ok, whether
\* or not the package manifest sets package.im-a-teapot and whatever levels
\* im_a_teapot and its group test_dummy_unstable are declared at.
C21_GatedLintSilent ==
    [][(TeapotCall /\ "test_dummy_unstable" \notin unstable_features') =>
          /\ shell' = shell
          /\ error_count' = error_count
          /\ pc' = "done"
          /\ ret' = Some(<< "Ok" >>)]_vars

\* package.im-a-teapot is set, the lint and its group are declared at
\* forbid, the feature is not enabled: nothing was printed.
C21_Witness ==
    /\ InTeapot
    /\ pc = "done"
    /\ manifest.im_a_teapot
    /\ DeclaredAt("im_a_teapot", "forbid")
    /\ DeclaredAt("test_dummy_unstable", "forbid")
    /\ "test_dummy_unstable" \notin unstable_features
    /\ shell = << >>
    /\ error_count = 0
    /\ ret = Some(<< "Ok" >>)


\* The level im_a_teapot resolves to when its feature is enabled, from the
\* declared settings alone: the lint has no edition override and its group
\* test_dummy_unstable defaults to Allow.
TeapotResolved ==
    LET l == "im_a_teapot" \in DOMAIN pkg_lints
        g == "test_dummy_unstable" \in DOMAIN pkg_lints
    IN  IF DeclaredAt("im_a_teapot", "forbid") \/ DeclaredAt("test_dummy_unstable", "forbid")
        THEN "Forbid"
        ELSE IF l /\ g
        THEN IF pkg_lints["im_a_teapot"].priority >= pkg_lints["test_dummy_unstable"].priority
             THEN DeclaredLevel("im_a_teapot")
             ELSE DeclaredLevel("test_dummy_unstable")
        ELSE IF l THEN DeclaredLevel("im_a_teapot")
        ELSE IF g THEN DeclaredLevel("test_dummy_unstable")
        ELSE "Allow"

\* check_im_a_teapot ran with the feature enabled on a package manifest that
\* sets package.im-a-teapot.
TeapotEnabledAndSet ==
    /\ InTeapot
    /\ "test_dummy_unstable" \in unstable_features
    /\ manifest.im_a_teapot

\* Exactly one diagnostic at error severity was printed and one error counted.
OneTeapotError ==
    /\ Len(shell) = 1
    /\ shell[1].report[1].level = "ERROR"
    /\ shell[1].report[1].title = "im_a_teapot is specified"
    /\ error_count = 1

\* The statement of C22 as written: with nothing declared for im_a_teapot
\* or its group, the call prints one error and counts it.
C22_Original ==
    (TeapotEnabledAndSet /\ DOMAIN pkg_lints \cap {"im_a_teapot", "test_dummy_unstable"} = {})
        => OneTeapotError

\* C22 (amended): with the feature enabled and package.im-a-teapot set,
\* check_im_a_teapot prints nothing and counts nothing when neither
\* im_a_teapot nor its group is declared, because the group defaults to
\* Allow; it prints exactly one diagnostic at error severity and counts
\* exactly one error when the declared settings resolve to Deny or Forbid.
C22_TeapotFiresWhenDeclared ==
    TeapotEnabledAndSet =>
        /\ DOMAIN pkg_lints \cap {"im_a_teapot", "test_dummy_unstable"} = {} =>
              (shell = << >> /\ error_count = 0 /\ ret = Some(<< "Ok" >>))
        /\ TeapotResolved \in {"Deny", "Forbid"} => OneTeapotError

C22_Witness ==
    /\ TeapotEnabledAndSet
    /\ pc = "done"
    /\ DOMAIN pkg_lints = {"im_a_teapot"}
    /\ DeclaredAt("im_a_teapot", "deny")
    /\ OneTeapotError
    /\ shell[1].force = TRUE


\* --------------- claims about the classification of declared names

InAnalyzeV2 == call = "analyze_cargo_lints_table"

\* The names of the three catalogs of lints/mod.rs, as they are spelled.
V2LintNames == {"unknown_lints"}
V2GroupNames ==
    {"complexity", "correctness", "nursery", "pedantic", "perf", "restriction", "style",
     "suspicious", "test_dummy_unstable"}
V2DynamicGroupNames == {"warnings"}
V2CatalogNames == V2LintNames \cup V2GroupNames \cup V2DynamicGroupNames

\* The declared names the loop has visited, in the order of the table.
Visited ==
    SubSeq(keys(pkg_lints), 1, Len(keys(pkg_lints)) - (IF pc = "classify" THEN Len(iter) ELSE 0))

\* The names a printed report is about.
ReportedNames == {shell[i].report[1].title[2] : i \in 1 .. Len(shell)}

\* C23: the unknown batch of analyze_cargo_lints_table holds exactly the
\* visited names that are spelled like no lint, no group and no dynamic
\* group, in the order of the table: a name that differs from a catalog name
\* by a hyphen or a capital letter is unknown, and warnings is never in the
\* batch and never the subject of a report.
C23_Classification ==
    InAnalyzeV2 =>
        /\ unknown_lints = SelectSeq(Visited, LAMBDA n : n \notin V2CatalogNames)
        /\ "warnings" \notin ReportedNames
        /\ \A i \in 1 .. Len(shell) :
              IsUnstableReport(shell[i]) =>
                  shell[i].report[1].title[2] \in V2LintNames \cup V2GroupNames

\* warnings, Warnings and unknown-lints are declared: the batch is Warnings
\* and unknown-lints.
C23_Witness ==
    /\ InAnalyzeV2
    /\ pc = "done"
    /\ DOMAIN pkg_lints = {"Warnings", "unknown-lints", "warnings"}
    /\ unknown_lints = << "Warnings", "unknown-lints" >>
    /\ manifest.lints_cargo = DOMAIN pkg_lints
    /\ ReportedNames = {"Warnings", "unknown-lints"}


\* ------------------------------ claims about the order of the catalogs

\* The names of a catalog, upper-cased, as texts.
UpperNames(catalog) == [i \in 1 .. Len(catalog) |-> to_uppercase(Chars(catalog[i].name))]

\* a comes before b, or is b, in the order of the bytes.
BytesLe(a, b) ==
    \/ a = b
    \/ \E i \in 1 .. Len(a) + 1 :
          /\ \A j \in 1 .. i - 1 : j <= Len(b) /\ a[j] = b[j]
          /\ IF i > Len(a) THEN i <= Len(b)
             ELSE i <= Len(b) /\ byte(a[i]) < byte(b[i])
NonDecreasing(names) ==
    \A i \in 1 .. Len(names), j \in 1 .. Len(names) : i < j => BytesLe(names[i], names[j])

\* C24: LINTS, LINT_GROUPS and DYNAMIC_LINT_GROUPS of lints/mod.rs and LINTS
\* and LINT_GROUPS of util/lints.rs are in non-decreasing order of their
\* upper-cased names, and no run of ensure_sorted_lints or
\* ensure_sorted_lint_groups fails.
C24_CatalogsSorted ==
    /\ NonDecreasing(UpperNames(LINTS))
    /\ NonDecreasing(UpperNames(LINT_GROUPS))
    /\ NonDecreasing(UpperNames(DYNAMIC_LINT_GROUPS))
    /\ NonDecreasing(UpperNames(util_LINTS))
    /\ NonDecreasing(UpperNames(util_LINT_GROUPS))
    /\ \A t \in TestNames :
          /\ tests[t].pc # "failed"
          /\ tests[t].pc \in {"sorted", "passed"} => tests[t].expected = tests[t].actual

\* The four tests have passed; the groups of lints/mod.rs were compared as
\* COMPLEXITY ... TEST_DUMMY_UNSTABLE.
C24_Witness ==
    /\ \A t \in TestNames : tests[t].pc = "passed"
    /\ Len(tests["lints::ensure_sorted_lint_groups"].actual) = 9
    /\ tests["lints::ensure_sorted_lint_groups"].actual[5] = << "P", "E", "R", "F" >>
    /\ tests["util::ensure_sorted_lints"].expected[1]
          = << "I", "M", "_", "A", "_", "T", "E", "A", "P", "O", "T" >>


\* C25: when a segment that is not the final one leads to a value that is
\* neither a table nor an array, the lookups return None, also when the next
\* segment is a key of the enclosing table. (The statement of the claim; the
\* lookups do not satisfy it.)
C25_NoSidewaysJump ==
    Walked[1] = "scalar" => ReturnedNone

\* What the lookups do on such a path: with a = "x" and b = true in the root
\* table, the path a, b returns the entry of b of the root table.
C25_SidewaysJump ==
    /\ AllReturned
    /\ lookup.path = << "a", "b" >>
    /\ DOMAIN lookup.document = {"a", "b"}
    /\ lookup.document["a"].item = String(ValueSpan(1), "x")
    /\ lookup.document["b"].item = Boolean(ValueSpan(2), TRUE)
    /\ unwrap(lookup.key_value) = Some(<< KeySpan(2), Boolean(ValueSpan(2), TRUE) >>)
    /\ unwrap(lookup.span) = Some([key |-> KeySpan(2), value |-> ValueSpan(2)])
    /\ unwrap(lookup.util_span) = unwrap(lookup.span)


\* ------------------------------ claims about the order of the reports

IsPrefix(s, t) == Len(s) <= Len(t) /\ s = SubSeq(t, 1, Len(s))
TitledNames(reports) == [i \in 1 .. Len(reports) |-> reports[i].report[1].title[2]]

\* C26: during a run of analyze_cargo_lints_table of util/lints.rs the
\* shell holds the gate reports first and the unknown-lint reports after
\* them; the gate reports are about the gate violations in the order of the
\* table, the unknown-lint reports about the unknown names in the order of
\* the table, and while the declared names are classified the shell holds no
\* unknown-lint report.
C26_UnknownBatchAfterWalk ==
    InAnalyze =>
        /\ shell = UnstableReports \o UnknownReports
        /\ IsPrefix(TitledNames(UnstableReports), UtilGateViolations)
        /\ IsPrefix(TitledNames(UnknownReports), UnknownBatch)
        /\ pc = "classify" => UnknownReports = << >>
        /\ UnknownReports # << >> =>
              /\ TitledNames(UnstableReports) = UtilGateViolations
              /\ unknown_lints = UnknownBatch

\* The unknown name test-dummy-unstable stands between the two gated names
\* in the table: both gate reports are printed before its report.
C26_Witness ==
    /\ InAnalyze
    /\ pc = "done"
    /\ keys(pkg_lints) = << "im_a_teapot", "test-dummy-unstable", "test_dummy_unstable" >>
    /\ TitledNames(shell) = << "im_a_teapot", "test_dummy_unstable", "test-dummy-unstable" >>
    /\ IsUnstableReport(shell[1])
    /\ IsUnstableReport(shell[2])
    /\ IsUnknownReport(shell[3])


\* ------------------------------------ claims about the error counter

\* The printed reports whose primary group has error severity.
ErrorReports == SelectSeq(shell, LAMBDA p : p.report[1].level = "ERROR")

\* C27: in the passes of util/lints.rs the error counter never decreases
\* and always equals the number of error-severity reports printed so far;
\* when analyze_cargo_lints_table has returned, the counter is the number of
\* declared lints and groups of the catalog whose feature is not enabled
\* plus, when unknown_lints resolves to Deny or Forbid, the number of
\* unknown declared names (plus nothing at Allow or Warn).
C27_ErrorCountAccounting ==
    /\ [](error_count = Len(ErrorReports))
    /\ []((InAnalyze /\ pc = "done") =>
            error_count = Len(UtilGateViolations)
                            + (CASE UnknownLintsResolved \in {"Deny", "Forbid"} -> Len(UnknownBatch)
                                 [] UnknownLintsResolved \in {"Allow", "Warn"} -> 0))
    /\ [][error_count' >= error_count /\ Len(shell') >= Len(shell)]_vars

\* One gate violation and two unknown names at the default Warn: three
\* reports, one of them an error, one error counted.
C27_Witness ==
    /\ InAnalyze
    /\ pc = "done"
    /\ DOMAIN pkg_lints = {"test_dummy_unstable", "this-lint-does-not-exist", "unknown-lints"}
    /\ "test_dummy_unstable" \notin unstable_features
    /\ DOMAIN pkg_lints \cap {"suspicious", "unknown_lints"} = {}
    /\ error_count = 1
    /\ Len(shell) = 3
    /\ Len(ErrorReports) = 1


\* ------------------ claims about the two generations of the resolver

\* C28: for a lint with no gate or a Gated::Feature gate, Lint::level of
\* lints/mod.rs returns the same level and reason as Lint::level of
\* util/lints.rs on the same table, edition and enabled features, and it
\* returns the same under every set of -Z flags.
C28_GenerationsAgree ==
    has_util_form(lint) =>
        /\ (is_some(result) /\ is_some(util_result)) => result = util_result
        /\ is_some(result) =>
              \A flags \in SUBSET CliFlagNames :
                  unwrap(result) = level(lint, pkg_lints, edition, unstable_features, flags)

\* A lint behind an enabled feature, with the flag cargo_lints set, declared
\* with its group: both resolvers took the group by priority, and neither
\* looked at the edition override.
C28_Witness ==
    /\ has_util_form(lint)
    /\ lint.feature_gate = Some(Feature("test_dummy_unstable"))
    /\ "test_dummy_unstable" \in unstable_features
    /\ cli_unstable = {"cargo_lints"}
    /\ is_some(lint.edition_lint_opts)
    /\ LintDeclared
    /\ GroupDeclared
    /\ pkg_lints["lint"].priority < pkg_lints["group"].priority
    /\ is_some(result)
    /\ result = util_result
    /\ unwrap(result) = << into(pkg_lints["group"].level), Package >>


\* ------------------------------ claims about to_diagnostic_level

\* C29: no run of check_im_a_teapot or of output_unknown_lints reaches the
\* unreachable arm of to_diagnostic_level: the passes never panic, the level
\* output_unknown_lints works with is Warn, Deny or Forbid, and every
\* printed diagnostic has warning or error severity.
C29_AllowNeverConverted ==
    (InAnalyze \/ InTeapot) =>
        /\ pc # "panic"
        /\ is_some(lint_level) =>
              /\ unwrap(lint_level)[1] \in {"Warn", "Deny", "Forbid"}
              /\ to_diagnostic_level(unwrap(lint_level)[1]) \in {"WARNING", "ERROR"}
        /\ \A i \in 1 .. Len(shell) :
              shell[i].report[1].level \in {"WARNING", "ERROR"}

\* im_a_teapot resolves to Allow with the feature enabled and
\* package.im-a-teapot set: check_im_a_teapot returned before the conversion.
C29_Witness ==
    /\ TeapotEnabledAndSet
    /\ DeclaredAt("im_a_teapot", "allow")
    /\ TeapotResolved = "Allow"
    /\ pc = "done"
    /\ shell = << >>
    /\ ret = Some(<< "Ok" >>)


\* ------------------- claims about manifests without their source text

\* The manifest misses its parsed document or its raw contents.
WithoutSourceText == ~manifest.document \/ ~manifest.contents

\* The one report a step printed has the title and the help and nothing else.
BareReport == Pushed[1].report[1].elements
                 = << Message("HELP", << "consider adding cargo-features",
                                         replace_underscores(Chars("test_dummy_unstable")) >>) >>

\* C30: a turn of the loop of analyze_cargo_lints_table on a gated name
\* whose feature is not enabled, on a manifest that misses its document or
\* its contents, prints exactly one error report with the
\* use-of-unstable-lint title and the cargo-features help and no source
\* snippet, with force = true, and adds exactly one to the error count; a
\* turn on a manifest that has both prints nothing and counts nothing
\* exactly when the key is not located at the scope of the manifest.
C30_ReportedWithoutSourceText ==
    [][GateViolationTurn =>
          IF WithoutSourceText
          THEN /\ OneGateError(Head(iter))
               /\ BareReport
               /\ \A i \in 1 .. Len(Pushed[1].report[1].elements) :
                     Pushed[1].report[1].elements[i].element # "Snippet"
          ELSE (shell' = shell /\ error_count' = error_count)
                  <=> ~KeyAtOwnScope(Head(iter))]_vars

\* A package manifest with its document and without its contents declares
\* test_dummy_unstable without the feature: the pass ends with the one error
\* that has no snippet.
C30_Witness ==
    /\ call = "analyze_cargo_lints_table"
    /\ pc = "done"
    /\ DOMAIN pkg_lints = {"test_dummy_unstable"}
    /\ "test_dummy_unstable" \notin unstable_features
    /\ manifest.scope = "Package"
    /\ ~manifest.lints_workspace
    /\ manifest.document
    /\ ~manifest.contents
    /\ Len(shell) = 1
    /\ shell[1].force = TRUE
    /\ shell[1].report
          = << Group("ERROR", << "use of unstable lint", "test_dummy_unstable" >>,
                     << Message("HELP", << "consider adding cargo-features",
                                           replace_underscores(Chars("test_dummy_unstable")) >>) >>) >>
    /\ error_count = 1

====
